---- MODULE Spec2Model ----
(***************************************************************************)
(* A model of the hypothesis pipeline of The Second Mind: the Generation,  *)
(* Reflection, Ranking, Evolution and Meta-Review agents                   *)
(* (src/agents/*.py) and the requests they send to the context store.      *)
(*                                                                         *)
(* Text is modelled as a sequence of words, a score as an integer number   *)
(* of hundredths (0.5 is 50), an overall score as tenths (5.0 is 50).      *)
(* A dict is a record plus the set of keys it holds where the code probes  *)
(* for keys.  Each agent has its own specification: the agents are called  *)
(* one at a time on a context dict, as the drivers src/con*_main.py do.    *)
(***************************************************************************)
EXTENDS Integers, Sequences, FiniteSets, TLC

VARIABLES
    gen,    \* one call of GenerationAgent.process / .generate
    refl,   \* one call of ReflectionAgent.process
    rank,   \* one call of RankingAgent.process
    evo,    \* one call of EvolutionAgent.process
    sess,   \* two sessions running their stages against one context store
    meta,   \* one call of MetaReviewAgent.process
    parse,  \* one oracle reply going through one of the reply parsers
    ext     \* one stage call waiting on the services it calls

vars == <<gen, refl, rank, evo, sess, meta, parse, ext>>

----------------------------------------------------------------------------
(* Bounds of the model *)

MaxReply == 6       \* longest JSON array the oracle returns to Generation
MaxResults == 2     \* most search results handed to Generation

----------------------------------------------------------------------------
(* Helpers on sequences *)

Range(s) == {s[i] : i \in 1..Len(s)}

RECURSIVE SeqsUpTo(_, _)
SeqsUpTo(S, n) ==
    IF n = 0 THEN {<<>>}
    ELSE LET shorter == SeqsUpTo(S, n - 1)
         IN  shorter \cup {Append(s, x) : s \in {t \in shorter : Len(t) = n - 1}, x \in S}

Min(a, b) == IF a <= b THEN a ELSE b
Max(a, b) == IF a >= b THEN a ELSE b

\* s[:n] of Python
Take(s, n) == SubSeq(s, 1, Min(n, Len(s)))

\* len() of a text held as words: the letters plus one blank between words
RECURSIVE TextLen(_)
TextLen(ws) ==
    IF ws = <<>> THEN 0
    ELSE Len(Head(ws)) + (IF Len(ws) > 1 THEN 1 ELSE 0) + TextLen(Tail(ws))

\* needle in haystack, for texts held as words
Contains(haystack, needle) ==
    \E k \in 0..(Len(haystack) - Len(needle)) :
        SubSeq(haystack, k + 1, k + Len(needle)) = needle

----------------------------------------------------------------------------
(* Generation: src/agents/generation_agent.py *)

LowerText(ws) ==
    LET
        \* word.lower() on the words of the model's texts
        Lower(w) ==
            CASE w = "Quantum"   -> "quantum"
              [] w = "Computing" -> "computing"
              [] w = "Future"    -> "future"
              [] w = "Neural"    -> "neural"
              [] w = "Error"     -> "error"
              [] w = "Correction" -> "correction"
              [] w = "Remains"   -> "remains"
              [] OTHER           -> w
    IN  [i \in 1..Len(ws) |-> Lower(ws[i])]

\* The pages a search can return, each with what WebScraper.scrape gives
\* for its link: "ok" (a dict with content), "nocontent" (content None),
\* "raise" (an exception).
PageBroken == [link |-> "u0", title |-> <<"broken">>, scraped |-> "nocontent",
               content |-> <<>>]
PageOne    == [link |-> "u1", title |-> <<"quantum">>, scraped |-> "ok",
               content |-> <<>>]
PageTwo    == [link |-> "u2", title |-> <<"neural", "nets">>, scraped |-> "ok",
               content |-> <<"deep", "nets">>]
PageMany   == [link |-> "u3", title |-> <<"quantum", "computing,", "future">>,
               scraped |-> "ok",
               content |-> <<"error", "correction", "remains">>]
Pages ==
    LET
        PageRaise  == [link |-> "u4", title |-> <<"down">>, scraped |-> "raise",
                       content |-> <<>>]
    IN  {PageBroken, PageRaise, PageOne, PageTwo, PageMany}

\* process, lines 81-124: the web_data built from the search results
RECURSIVE BuildWebData(_)
BuildWebData(results) ==
    IF results = <<>> THEN <<>>
    ELSE LET p == Head(results)
             rest == BuildWebData(Tail(results))
         IN  IF p.link # "" /\ p.scraped = "ok"
             THEN <<[source |-> p.link, title |-> p.title, content |-> p.content]>> \o rest
             ELSE rest

\* the elements of a sequence in order of first occurrence
RECURSIVE Dedup(_)
Dedup(s) ==
    IF s = <<>> THEN <<>>
    ELSE LET d == Dedup(SubSeq(s, 1, Len(s) - 1))
         IN  IF s[Len(s)] \in Range(d) THEN d ELSE Append(d, s[Len(s)])

RECURSIVE ItemConcepts(_, _, _)
ItemConcepts(item, i, inTitle) ==
    LET
        \* word.strip('.,!?()[]{}').title() on the words of the model's pages
        StripTitle(w) ==
            CASE w = "quantum"    -> "Quantum"
              [] w = "computing," -> "Computing"
              [] w = "future"     -> "Future"
              [] w = "neural"     -> "Neural"
              [] w = "error"      -> "Error"
              [] w = "correction" -> "Correction"
              [] w = "remains"    -> "Remains"
              [] OTHER            -> w
        \* bigram.strip(...).title() of two words: a concept of two words
        BigramTitle(a, b) == <<StripTitle(a), StripTitle(b)>>
    IN
    IF inTitle
    THEN IF i > Len(item.title) THEN ItemConcepts(item, 1, FALSE)
         ELSE (IF Len(item.title[i]) > 4 THEN << <<StripTitle(item.title[i])>> >> ELSE <<>>)
              \o ItemConcepts(item, i + 1, TRUE)
    ELSE IF i + 1 > Len(item.content) THEN <<>>
         ELSE (IF Len(item.content[i]) + 1 + Len(item.content[i + 1]) > 10
               THEN << BigramTitle(item.content[i], item.content[i + 1]) >> ELSE <<>>)
              \o ItemConcepts(item, i + 1, FALSE)

RECURSIVE ConceptsAdded(_)
ConceptsAdded(web_data) ==
    IF web_data = <<>> THEN <<>>
    ELSE ItemConcepts(Head(web_data), 1, TRUE) \o ConceptsAdded(Tail(web_data))

\* the indices j of the items with text.lower() in content.lower()
RECURSIVE MatchingSources(_, _, _)
MatchingSources(web_data, text, j) ==
    IF j > Len(web_data) THEN <<>>
    ELSE (IF Contains(LowerText(web_data[j].content), LowerText(text))
          THEN <<j - 1>> ELSE <<>>)
         \o MatchingSources(web_data, text, j + 1)

\* _generate_hypotheses_fallback, lines 476-507: the fixed default set
DefaultHypotheses(now) ==
    << [id |-> <<"hyp", now, 1>>, confidence |-> 80, sources |-> <<0, 1>>,
        statement |-> <<"AI", "technologies", "are", "revolutionizing", "forensic",
                        "investigations">>],
       [id |-> <<"hyp", now, 2>>, confidence |-> 75, sources |-> <<2, 3>>,
        statement |-> <<"Machine", "learning", "algorithms", "can", "identify",
                        "patterns">>],
       [id |-> <<"hyp", now, 3>>, confidence |-> 70, sources |-> <<0, 4>>,
        statement |-> <<"Ethical", "concerns", "about", "AI", "in", "forensics">>] >>

\* _generate_hypotheses_fallback, lines 453-550, for one list of concepts,
\* one draw r of random.randint(3, 5) and the drawn confidences
GenerateHypothesesFallback(concepts, web_data, now, r, confs) ==
    LET
        \* lines 509-548: the hypothesis built for concepts[i] (i counts from 0)
        FallbackHypothesis(concept, i, conf) ==
            LET
                FallbackTemplate == <<"is", "a", "significant", "factor", "in", "the", "impact",
                                      "of", "AI", "on", "forensic", "investigations">>
                found == MatchingSources(web_data, concept, 1)
                src == IF found = <<>>
                       THEN (IF Len(web_data) >= 2 THEN <<0, 1>> ELSE <<0>>)
                       ELSE found
            IN  [id |-> <<"hyp", now, i>>, statement |-> concept \o FallbackTemplate,
                 confidence |-> conf, sources |-> Take(src, 3)]
        wanted == Min(Len(concepts), r)
        num_hypotheses == IF wanted < 3 THEN 3 ELSE wanted
    IN  IF concepts = <<>> THEN DefaultHypotheses(now)
        ELSE [k \in 1..Min(num_hypotheses, Len(concepts)) |->
                 FallbackHypothesis(concepts[k], k - 1, confs[k])]

----------------------------------------------------------------------------
(* The oracle's replies to Generation, as json.loads sees them after         *)
(* _sanitize_json_response.                                                 *)

MaxMixed == 2   \* longest reply array that mixes the kinds of entries

\* lines 383-406: the hypotheses built from the entries of a parsed array;
\* i counts from 0 over all entries, the skipped ones too
RECURSIVE FromEntries(_, _, _, _)
FromEntries(items, i, web_data, now) ==
    IF i >= Len(items) THEN <<>>
    ELSE LET h == items[i + 1]
         IN  IF ~h.isDict \/ "statement" \notin h.keys \/ "confidence" \notin h.keys
             THEN FromEntries(items, i + 1, web_data, now)
             ELSE <<[id |-> <<"hyp", now, i>>, statement |-> h.statement,
                     confidence |-> h.confidence,
                     sources |-> Take(MatchingSources(web_data, h.statement, 1), 3)]>>
                  \o FromEntries(items, i + 1, web_data, now)

\* _generate_hypotheses_with_gemini, lines 334-451: what it can return
GenerateHypothesesWithGemini(reply, web_data, now) ==
    LET
        \* every list _generate_hypotheses_fallback can return: one per order of the
        \* concepts, per draw of random.randint(3, 5) and per drawn confidences
        FallbackOutcomes ==
            LET
                \* the confidences random.uniform(0.5, 0.9) is drawn from in the model
                FallbackConfidences == {50, 90}
                \* _extract_key_concepts, lines 552-604: the lists it can return.  The
                \* concepts are collected in a set, whose list() order is not fixed: the
                \* model keeps two of the orders, insertion order and its reverse.
                ExtractKeyConcepts ==
                    LET
                        Reverse(s) == [i \in 1..Len(s) |-> s[Len(s) + 1 - i]]
                        \* a concept is a text: one titled word, or a titled bigram
                        DefaultConcepts == << <<"AI", "in", "forensics">>, <<"Digital", "forensics">>,
                                              <<"Forensic", "investigation">> >>
                    IN
                    IF web_data = <<>> THEN {DefaultConcepts}
                    ELSE LET cs == Dedup(ConceptsAdded(web_data))
                         IN  IF cs = <<>> THEN {DefaultConcepts} ELSE {cs, Reverse(cs)}
            IN
            UNION {
                {GenerateHypothesesFallback(cs, web_data, now, r, confs) :
                    confs \in [1..Min(Max(Min(Len(cs), r), 3), Len(cs)) -> FallbackConfidences]} :
                cs \in ExtractKeyConcepts, r \in 3..5}
        \* _generate_hypotheses_with_gemini, lines 362-451, up to the calls of the
        \* fallback: the path the reply takes and the hypotheses built on it
        GeminiParse ==
            LET
                \* lines 419-446: the hypotheses recovered by the regular expressions
                FromRegex(statements, confidences) ==
                    [k \in 1..Len(statements) |->
                        [id |-> <<"hyp", now, k - 1>>, statement |-> statements[k],
                         confidence |-> confidences[k], sources |-> <<>>]]
                \* float(h["confidence"]) raises for an entry that passes the key test
                EntriesRaise(items) ==
                    \E i \in 1..Len(items) :
                        /\ items[i].isDict
                        /\ {"statement", "confidence"} \subseteq items[i].keys
                        /\ ~items[i].numeric
            IN
            CASE reply.kind = "none" -> [path |-> "fallback", hyps |-> <<>>]
              [] reply.kind = "object" -> [path |-> "fallback", hyps |-> <<>>]
              [] reply.kind = "list" ->
                    IF EntriesRaise(reply.items) THEN [path |-> "raised", hyps |-> <<>>]
                    ELSE LET hs == FromEntries(reply.items, 0, web_data, now)
                         IN  IF hs = <<>> THEN [path |-> "fallback", hyps |-> <<>>]
                             ELSE [path |-> "oracle", hyps |-> hs]
              [] reply.kind = "garbled" ->
                    IF /\ reply.statements # <<>>
                       /\ reply.confidences # <<>>
                       /\ Len(reply.statements) = Len(reply.confidences)
                    THEN [path |-> "regex",
                          hyps |-> FromRegex(reply.statements, reply.confidences)]
                    ELSE [path |-> "fallback", hyps |-> <<>>]
        p == GeminiParse
    IN  IF p.path = "fallback"
        THEN {[path |-> "fallback", hyps |-> fb] : fb \in FallbackOutcomes}
        ELSE {p}

\* BaseAgent.validate_context: the required keys are all in the context
ValidateContext(keys, required) == required \subseteq keys

GenRequiredKeys == {"query"}

\* GenerationAgent.process: the results it can have on the input g
ProcessResults(g) ==
    LET
        \* the end of process, lines 172-185: reading an unbound local in the summary
        \* raises UnboundLocalError, which nothing in process catches
        ProcessReturn(t) ==
            LET
                \* the local names the summary of process, lines 173-183, reads
                SummaryReads == {"query", "web_data", "hypotheses"}
            IN
            IF SummaryReads \subseteq t.bound
            THEN [outcome |-> "returned", hyps |-> t.hyps, path |-> t.path]
            ELSE [outcome |-> "raised", hyps |-> <<>>, path |-> t.path]
        \* GenerationAgent.process, lines 39-171, for one result of the oracle step:
        \* the local names bound when the try block is left, whether it was left by
        \* an exception, and the hypotheses in generated_data
        ProcessTry(made) ==
            LET
                \* process, lines 131-153: each hypothesis is stored, and the item id that
                \* _store_context_item returns, when it is not "", is written into the
                \* hypothesis as context_item_id
                StoreHypotheses(hypotheses, store) ==
                    [i \in 1..Len(hypotheses) |->
                        IF store = "ok" THEN [context_item_id |-> <<"item", i>>] @@ hypotheses[i]
                        ELSE hypotheses[i]]
                \* process, lines 155-162: the hypothesis the except branch stores
                ExceptHypothesis(query, now) ==
                    [id |-> <<"fallback", now>>, confidence |-> 30, sources |-> <<>>,
                     statement |-> <<"General", "hypothesis", "about">> \o query]
            IN
            IF ~ValidateContext(g.keys, GenRequiredKeys)
            THEN [bound |-> {}, path |-> "invalid",
                  hyps |-> <<ExceptHypothesis(<<"the", "topic">>, g.now)>>]
            ELSE IF made.path = "raised"
            THEN [bound |-> {"query", "web_data"}, path |-> "raised",
                  hyps |-> <<ExceptHypothesis(g.query, g.now)>>]
            ELSE [bound |-> {"query", "web_data", "hypotheses"}, path |-> made.path,
                  hyps |-> StoreHypotheses(made.hyps, g.store)]
    IN
    IF ~ValidateContext(g.keys, GenRequiredKeys)
    THEN {ProcessReturn(ProcessTry( [path |-> "none", hyps |-> <<>>]))}
    ELSE {ProcessReturn(ProcessTry( made)) :
             made \in GenerateHypothesesWithGemini(g.reply, BuildWebData(g.results), g.now)}

InitGen ==
    LET
        GenIdle == [api |-> "none", outcome |-> "none", hyps |-> <<>>, path |-> "none"]
        GenInputs ==
            LET
                GenQuery == <<"future", "of", "computing">>
                \* What the store does with the POSTs of one call of process: it answers 200
                \* with status "success" and an item id ("ok"), or the call fails with another
                \* status, a body that is no such object, or a transport exception ("error")
                GenStoreAnswers == {"ok", "error"}
                \* kind "none": None, "" or blanks; "list": a JSON array; "object": JSON that
                \* is no array; "garbled": text json.loads rejects, with what the regular
                \* expressions of lines 421-423 find in it.
                GenReplies ==
                    LET
                        GenListReplies ==
                            LET
                                \* "confidence": "high": float() raises ValueError
                                EntryBadConfidence == [isDict |-> TRUE, keys |-> {"statement", "confidence"},
                                               statement |-> <<"quantum", "wins">>, numeric |-> FALSE, confidence |-> 0]
                                EntryNotDict == [isDict |-> FALSE, keys |-> {},
                                               statement |-> <<>>, numeric |-> TRUE, confidence |-> 0]
                                EntryNoConfidence == [isDict |-> TRUE, keys |-> {"statement"},
                                               statement |-> <<"half", "an", "entry">>, numeric |-> TRUE, confidence |-> 0]
                                \* accepted by the key test although the statement is empty
                                EntryEmpty == [isDict |-> TRUE, keys |-> {"statement", "confidence"},
                                               statement |-> <<>>, numeric |-> TRUE, confidence |-> 150]
                                EntryValid == [isDict |-> TRUE, keys |-> {"statement", "confidence", "rationale"},
                                               statement |-> <<"error", "correction", "remains">>,
                                               numeric |-> TRUE, confidence |-> 80]
                            IN
                            SeqsUpTo({EntryValid, EntryEmpty, EntryNoConfidence}, MaxMixed)
                            \cup {[i \in 1..n |-> EntryValid] : n \in (MaxMixed + 1)..MaxReply}
                            \cup {<<EntryNotDict>>, <<EntryBadConfidence>>, <<EntryValid, EntryBadConfidence>>,
                                  <<EntryNotDict, EntryValid>>}
                    IN
                    {[kind |-> "none", items |-> <<>>, statements |-> <<>>, confidences |-> <<>>],
                     [kind |-> "object", items |-> <<>>, statements |-> <<>>, confidences |-> <<>>]}
                    \cup {[kind |-> "list", items |-> l, statements |-> <<>>, confidences |-> <<>>] :
                             l \in GenListReplies}
                    \cup {[kind |-> "garbled", items |-> <<>>, statements |-> s, confidences |-> c] :
                             s \in {<<>>, <<<<"a", "claim">>>>, <<<<"a", "claim">>, <<>>>>},
                             c \in {<<>>, <<70>>, <<70, 100>>}}
                \* the pages the searches of the model return
                SearchPages == {PageBroken, PageOne, PageTwo, PageMany}
            IN
            [keys : {{"query"}}, query : {GenQuery, <<>>},
             results : SeqsUpTo(SearchPages, MaxResults), reply : GenReplies, now : {1},
             store : GenStoreAnswers]
            \cup
            [keys : {{}}, query : {<<>>},
             results : SeqsUpTo(SearchPages, MaxResults), reply : GenReplies, now : {1},
             store : GenStoreAnswers]
    IN
    /\ gen \in [in : GenInputs, call : {GenIdle}]
    /\ refl = [idle |-> TRUE]
    /\ rank = [idle |-> TRUE]
    /\ evo = [idle |-> TRUE]
    /\ sess = [idle |-> TRUE]
    /\ meta = [idle |-> TRUE]
    /\ parse = [idle |-> TRUE]
    /\ ext = [idle |-> TRUE]

\* a call of GenerationAgent.process(context)
GenProcess ==
    /\ gen.call.api = "none"
    /\ \E res \in ProcessResults(gen.in) :
          gen' = [gen EXCEPT !.call = [api |-> "process"] @@ res]
    /\ UNCHANGED <<refl, rank, evo, sess, meta, parse, ext>>

\* a call of GenerationAgent.generate(query)
GenGenerate ==
    LET
        \* GenerationAgent.generate, lines 606-658: the results for a query string
        GenerateResults(g) ==
            IF g.query = <<>>
            THEN {[outcome |-> "returned", hyps |-> <<>>, path |-> "badquery"]}
            ELSE {IF p.outcome = "raised"
                  THEN [outcome |-> "returned", hyps |-> <<>>, path |-> p.path]
                  ELSE p :
                     p \in ProcessResults([g EXCEPT !.keys = {"query", "session_id"}])}
    IN
    /\ gen.call.api = "none"
    /\ \E res \in GenerateResults(gen.in) :
          gen' = [gen EXCEPT !.call = [api |-> "generate"] @@ res]
    /\ UNCHANGED <<refl, rank, evo, sess, meta, parse, ext>>

NextGen == GenProcess \/ GenGenerate

SpecGen == InitGen /\ [][NextGen]_vars

----------------------------------------------------------------------------
(* Reflection: src/agents/reflection_agent.py *)

MaxHyps == 2        \* most hypotheses in one call of a stage

ReflectionFields == {"is_coherent", "coherence_score", "has_supporting_evidence",
                     "supporting_facts", "contradictions", "comments"}

\* A reflection dict: the keys it holds and their values (a value whose key
\* is absent is a filler the code cannot read).
Reflection(keys, id, coherent, score, evidence, facts, contras, comments) ==
    [keys |-> keys, hypothesis_id |-> id, is_coherent |-> coherent,
     coherence_score |-> score, has_supporting_evidence |-> evidence,
     supporting_facts |-> facts, contradictions |-> contras, comments |-> comments]

\* the first sentence of the content that holds one of the texts, if any
RECURSIVE FirstSentenceWith(_, _)
FirstSentenceWith(sentences, texts) ==
    IF sentences = <<>> THEN <<>>
    ELSE IF \E t \in texts : Contains(LowerText(Head(sentences)), t)
         THEN <<Head(sentences)>>
         ELSE FirstSentenceWith(Tail(sentences), texts)

InContent(data, text) == \E i \in 1..Len(data.content) : Contains(LowerText(data.content[i]), text)

\* lines 412-424: the facts one evidence item gives for the keywords
RECURSIVE FactsOf(_, _)
FactsOf(data, keywords) ==
    IF keywords = <<>> THEN <<>>
    ELSE LET k == Head(keywords)
             hit == IF InContent(data, k) \/ Contains(LowerText(data.title), k)
                    THEN FirstSentenceWith(data.content, {k}) ELSE <<>>
         IN  (IF hit # <<>> /\ TextLen(hit[1]) > 10
              THEN <<[fact |-> hit[1], source |-> data.source]>> ELSE <<>>)
             \o FactsOf(data, Tail(keywords))

\* lines 427-439: the contradictions one evidence item gives
RECURSIVE ContradictionsOf(_, _, _)
ContradictionsOf(data, keywords, phrases) ==
    IF phrases = <<>> THEN <<>>
    ELSE LET negated == {<<Head(phrases)>> \o keywords[i] : i \in 1..Len(keywords)}
             hit == IF \E t \in negated : InContent(data, t)
                    THEN FirstSentenceWith(data.content, negated) ELSE <<>>
         IN  (IF hit # <<>> /\ TextLen(hit[1]) > 10
              THEN <<[contradiction |-> hit[1], source |-> data.source]>> ELSE <<>>)
             \o ContradictionsOf(data, keywords, Tail(phrases))

RECURSIVE ScanEvidence(_, _, _)
ScanEvidence(web_data, keywords, facts) ==
    LET
        NegationPhrases == <<"not", "cannot", "doesn't", "isn't", "won't", "never">>
    IN
    IF web_data = <<>> THEN <<>>
    ELSE (IF facts THEN FactsOf(Head(web_data), keywords)
          ELSE ContradictionsOf(Head(web_data), keywords, NegationPhrases))
         \o ScanEvidence(Tail(web_data), keywords, facts)

\* data.get("content", "").lower() raises for an item whose content is None
EvidenceRaises(web_data) == \E i \in 1..Len(web_data) : web_data[i].contentNone

\* _reflect_on_hypothesis, lines 379-468: the rule-based reflection
ReflectOnHypothesis(h, web_data) ==
    LET
        ExtractKeywords(text) ==
            LET
                \* _extract_keywords, lines 502-525: the words longer than 3 that are no stop
                \* words, then the bigrams that are not all stop words (a keyword is a text)
                StopWords == {"the", "a", "an", "is", "are", "was", "were", "be", "been",
                              "for", "of", "in", "to", "with", "by", "about", "could"}
                words == LowerText(text)
                singles == SelectSeq(words, LAMBDA w : w \notin StopWords /\ Len(w) > 3)
                bigrams == [i \in 1..(Len(words) - 1) |-> <<words[i], words[i + 1]>>]
                kept == SelectSeq(bigrams, LAMBDA b : ~(b[1] \in StopWords /\ b[2] \in StopWords))
            IN  Dedup([i \in 1..Len(singles) |-> <<singles[i]>>] \o kept)
        CheckCoherence(statement) ==
            LET
                \* _check_coherence, lines 470-500
                ContradictoryPairs == {<<"increase", "decrease">>, <<"always", "never">>,
                                       <<"all", "none">>, <<"positive", "negative">>}
                lower == Range(LowerText(statement))
            IN  IF TextLen(statement) < 10 \/ TextLen(statement) > 500 THEN FALSE
                ELSE ~ \E pair \in ContradictoryPairs :
                          /\ pair[1] \in lower
                          /\ pair[2] \in lower
                          /\ "than" \notin lower
                          /\ "but" \notin lower
        statement == IF "statement" \in h.keys THEN h.statement ELSE <<>>
        is_coherent == CheckCoherence(statement)
        keywords == ExtractKeywords(statement)
        supporting_facts == Take(ScanEvidence(web_data, keywords, TRUE), 5)
        contradictions == Take(ScanEvidence(web_data, keywords, FALSE), 3)
        has_supporting_evidence == Len(supporting_facts) > 0
        comments ==
            (IF ~is_coherent THEN <<"may not be internally coherent">> ELSE <<>>)
            \o (IF ~has_supporting_evidence THEN <<"lacks supporting evidence">> ELSE <<>>)
            \o (IF contradictions # <<>> THEN <<"has contradicting evidence">> ELSE <<>>)
            \o (IF is_coherent /\ has_supporting_evidence /\ contradictions = <<>>
                THEN <<"well-supported">> ELSE <<>>)
    IN  Reflection(ReflectionFields \cup {"hypothesis_id", "query"}, h.id, is_coherent,
                   IF is_coherent THEN 80 ELSE 40, has_supporting_evidence,
                   supporting_facts, contradictions, comments)

\* _extract_reflection_from_text, lines 556-598, for a reply that is no JSON
ExtractReflectionFromText(reply, id) ==
    Reflection(ReflectionFields \cup {"hypothesis_id", "query"}, id,
               ~reply.saysIncoherent, IF reply.saysIncoherent THEN 30 ELSE 50,
               reply.saysEvidence, <<>>, <<>>, Take(reply.sentences, 3))

\* _reflect_with_gemini, lines 332-338: the dict returned for an empty reply
EmptyReplyResult(id) ==
    Reflection({"error", "hypothesis_id", "query"}, id, FALSE, 0, FALSE, <<>>, <<>>, <<>>)

\* _reflect_with_gemini, lines 240-369: [raised, result] for one hypothesis
\* and the oracle's reply to its prompt
ReflectWithGemini(h, web_data, reply) ==
    LET
        \* _reflect_with_gemini, lines 346-364: the parsed object with the absent
        \* fields filled in
        FillDefaults(obj, id) ==
            LET has(f) == f \in obj.keys
            IN  Reflection(obj.keys \cup ReflectionFields \cup {"hypothesis_id", "query"}, id,
                           IF has("is_coherent") THEN obj.is_coherent ELSE FALSE,
                           IF has("coherence_score") THEN obj.coherence_score ELSE 50,
                           IF has("has_supporting_evidence") THEN obj.has_supporting_evidence ELSE FALSE,
                           IF has("supporting_facts") THEN obj.supporting_facts ELSE <<>>,
                           IF has("contradictions") THEN obj.contradictions ELSE <<>>,
                           IF has("comments") THEN obj.comments ELSE <<>>)
    IN
    IF "statement" \notin h.keys                     \* hypothesis["statement"]
    THEN [raised |-> TRUE, result |-> EmptyReplyResult(h.id)]
    ELSE IF EvidenceRaises(Take(web_data, 3))        \* len(data.get("content", ""))
    THEN [raised |-> TRUE, result |-> EmptyReplyResult(h.id)]
    ELSE CASE reply.kind = "none" -> [raised |-> FALSE, result |-> EmptyReplyResult(h.id)]
           [] reply.kind = "json" -> [raised |-> FALSE, result |-> FillDefaults(reply.obj, h.id)]
           \* a JSON value that is no object: the item assignment raises TypeError
           [] reply.kind = "nonobject" -> [raised |-> TRUE, result |-> EmptyReplyResult(h.id)]
           [] reply.kind = "text" ->
                 [raised |-> FALSE, result |-> ExtractReflectionFromText(reply, h.id)]

\* process, lines 81-99: the body of the loop for one hypothesis
ReflectOne(h, web_data, reply) ==
    LET first == ReflectWithGemini(h, web_data, reply)
    IN  IF ~first.raised THEN first
        ELSE IF EvidenceRaises(web_data)
             THEN [raised |-> TRUE, result |-> EmptyReplyResult(h.id)]
             ELSE [raised |-> FALSE, result |-> ReflectOnHypothesis(h, web_data)]

ReflRequiredKeys == {"hypotheses", "web_data", "query"}

\* process, lines 105-109: reads r["is_coherent"] (and, when that is true,
\* r["has_supporting_evidence"]) of every result
ImproveRaises(results) ==
    \E i \in 1..Len(results) :
        \/ "is_coherent" \notin results[i].keys
        \/ results[i].is_coherent /\ "has_supporting_evidence" \notin results[i].keys

\* ReflectionAgent.process with an except branch that keeps the results
\* appended so far instead of building one neutral result per hypothesis
ReflectionProcessKeepsPartial(c) ==
    LET n == Len(c.hypotheses)
        each == [i \in 1..n |-> ReflectOne(c.hypotheses[i], c.web_data, c.replies[i])]
        firstRaise == IF \E i \in 1..n : each[i].raised
                      THEN CHOOSE i \in 1..n : each[i].raised /\ \A j \in 1..(i - 1) : ~each[j].raised
                      ELSE n + 1
        done == [i \in 1..(firstRaise - 1) |-> each[i].result]
    IN  IF ~(ReflRequiredKeys \subseteq c.keys)
        THEN [path |-> "invalid", results |-> <<>>, stored |-> <<>>]
        ELSE IF firstRaise <= n \/ ImproveRaises(done)
        THEN [path |-> "except", results |-> done, stored |-> done]
        ELSE [path |-> "ok", results |-> done, stored |-> done]

\* ReflectionAgent.process, lines 37-144: context["reflection_results"] and
\* the reflections posted to the store, in order
ReflectionProcess(c) ==
    LET
        \* process, lines 125-136: the results of the except branch
        NeutralReflection(id) ==
            Reflection(ReflectionFields \cup {"hypothesis_id"}, id, TRUE, 50, FALSE, <<>>, <<>>,
                       <<"Failed to complete reflection">>)
        n == Len(c.hypotheses)
        each == [i \in 1..n |-> ReflectOne(c.hypotheses[i], c.web_data, c.replies[i])]
        firstRaise == IF \E i \in 1..n : each[i].raised
                      THEN CHOOSE i \in 1..n : each[i].raised /\ \A j \in 1..(i - 1) : ~each[j].raised
                      ELSE n + 1
        done == [i \in 1..(firstRaise - 1) |-> each[i].result]
        neutral == IF "hypotheses" \in c.keys
                   THEN [i \in 1..n |-> NeutralReflection(c.hypotheses[i].id)]
                   ELSE <<>>
    IN  IF ~(ReflRequiredKeys \subseteq c.keys)
        THEN [path |-> "invalid", results |-> neutral, stored |-> <<>>]
        ELSE IF firstRaise <= n
        THEN [path |-> "except", results |-> neutral, stored |-> done]
        ELSE IF ImproveRaises(done)
        THEN [path |-> "except", results |-> neutral, stored |-> done]
        ELSE [path |-> "ok", results |-> done, stored |-> done]

EvidenceGood == [source |-> "s1", title |-> <<"quantum", "news">>, contentNone |-> FALSE,
                 content |-> << <<"quantum", "computing", "is", "here">>,
                                <<"it", "is", "not", "computing", "yet">> >>]
EvidenceNone == [source |-> "s2", title |-> <<"empty">>, contentNone |-> TRUE,
                 content |-> <<>>]
ReflWebData == {<<>>, <<EvidenceGood>>, <<EvidenceNone>>}

\* the lists of up to n hypotheses of the given kinds, with ids by position
WithIds(kinds) == [i \in 1..Len(kinds) |-> [id |-> <<"hyp", i>>] @@ kinds[i]]

InitRefl ==
    LET
        ReflIdle == [done |-> FALSE, path |-> "none", results |-> <<>>, stored |-> <<>>]
        \* The oracle is asked only when the keys are there and the prompt can be
        \* built, so only then do the replies vary.
        ReflInputs ==
            LET
                ReflReply(kind, obj, incoherent, evidence) ==
                    [kind |-> kind, obj |-> obj, saysIncoherent |-> incoherent, saysEvidence |-> evidence,
                     sentences |-> IF kind = "text" THEN <<"the hypothesis was examined">> ELSE <<>>]
                ObjPartial == [keys |-> {"is_coherent"}, is_coherent |-> TRUE, coherence_score |-> 0,
                               has_supporting_evidence |-> FALSE, supporting_facts |-> <<>>,
                               contradictions |-> <<>>, comments |-> <<>>]
                ReflReplies ==
                    LET
                        ObjFull == [keys |-> ReflectionFields, is_coherent |-> TRUE, coherence_score |-> 85,
                                    has_supporting_evidence |-> TRUE,
                                    supporting_facts |-> <<[fact |-> <<"quantum", "computing", "is", "here">>,
                                                            source |-> "s1"]>>,
                                    contradictions |-> <<>>, comments |-> <<"sound">>]
                        \* a score outside the range the prompt asks for
                        ObjHigh == [ObjFull EXCEPT !.coherence_score = 150]
                    IN
                    {ReflReply("none", ObjPartial, FALSE, FALSE),
                     ReflReply("nonobject", ObjPartial, FALSE, FALSE),
                     ReflReply("json", ObjFull, FALSE, FALSE),
                     ReflReply("json", ObjHigh, FALSE, FALSE),
                     ReflReply("json", ObjPartial, FALSE, FALSE),
                     ReflReply("text", ObjPartial, FALSE, FALSE),
                     ReflReply("text", ObjPartial, TRUE, TRUE)}
                ReflHypKinds ==
                    LET
                        HypNoStatement == [keys |-> {"id"}, statement |-> <<>>]
                        HypIncoherent == [keys |-> {"id", "statement"},
                                          statement |-> <<"costs", "always", "rise", "and", "never", "fall">>]
                        \* The hypotheses, evidence and oracle replies of the model's Reflection calls
                        HypCoherent   == [keys |-> {"id", "statement"},
                                          statement |-> <<"quantum", "computing", "remains", "hard">>]
                    IN  {HypCoherent, HypIncoherent, HypNoStatement}
            IN
            UNION {[keys : {ReflRequiredKeys},
                    hypotheses : {WithIds(ks)},
                    web_data : {<<>>, <<EvidenceGood>>},
                    replies : [1..Len(ks) -> ReflReplies]]
                   \cup
                   [keys : {ReflRequiredKeys, ReflRequiredKeys \ {"web_data"},
                            ReflRequiredKeys \ {"hypotheses"}},
                    hypotheses : {WithIds(ks)},
                    web_data : {<<EvidenceNone>>},
                    replies : {[i \in 1..Len(ks) |-> ReflReply("none", ObjPartial, FALSE, FALSE)]}] :
                   ks \in SeqsUpTo(ReflHypKinds, MaxHyps)}
    IN
    /\ refl \in [in : ReflInputs, call : {ReflIdle}]
    /\ gen = [idle |-> TRUE]
    /\ rank = [idle |-> TRUE]
    /\ evo = [idle |-> TRUE]
    /\ sess = [idle |-> TRUE]
    /\ meta = [idle |-> TRUE]
    /\ parse = [idle |-> TRUE]
    /\ ext = [idle |-> TRUE]

\* a call of ReflectionAgent.process(context)
ReflProcess ==
    /\ ~refl.call.done
    /\ refl' = [refl EXCEPT !.call = [done |-> TRUE] @@ ReflectionProcess(refl.in)]
    /\ UNCHANGED <<gen, rank, evo, sess, meta, parse, ext>>

NextRefl == ReflProcess

SpecRefl == InitRefl /\ [][NextRefl]_vars

----------------------------------------------------------------------------
(* Ranking: src/agents/ranking_agent.py *)

MaxRanked == 3      \* most hypotheses in one call of RankingAgent.process

RankRequiredKeys == {"query", "hypotheses", "reflection_results", "web_data"}

\* self.weights, lines 33-40, in hundredths
Weights == [coherence |-> 20, evidence |-> 25, relevance |-> 20,
            specificity |-> 10, novelty |-> 10, llm_credibility |-> 15]

Criteria == DOMAIN Weights

\* the lower-cased words of an evidence item's content
RECURSIVE ContentWords(_)
ContentWords(content) ==
    IF content = <<>> THEN {}
    ELSE Range(LowerText(Head(content))) \cup ContentWords(Tail(content))

RECURSIVE SumSeq(_)
SumSeq(s) == IF s = <<>> THEN 0 ELSE Head(s) + SumSeq(Tail(s))

\* list.sort(key=overall_score, reverse=True) that lets a record overtake
\* the records of equal score before it
RECURSIVE SortOvertakingEquals(_)
SortOvertakingEquals(s) ==
    IF s = <<>> THEN <<>>
    ELSE LET rest == SortOvertakingEquals(SubSeq(s, 1, Len(s) - 1))
             h == s[Len(s)]
             before == SelectSeq(rest, LAMBDA x : x.overall_score > h.overall_score)
             after == SelectSeq(rest, LAMBDA x : x.overall_score <= h.overall_score)
         IN  before \o <<h>> \o after

\* line 128: ranked_hypotheses.sort(key=overall_score, reverse=True); the
\* sort is stable, so a record goes behind the records of equal score that
\* came before it
RECURSIVE SortByOverallScore(_)
SortByOverallScore(s) ==
    IF s = <<>> THEN <<>>
    ELSE LET rest == SortByOverallScore(SubSeq(s, 1, Len(s) - 1))
             h == s[Len(s)]
             before == SelectSeq(rest, LAMBDA x : x.overall_score >= h.overall_score)
             after == SelectSeq(rest, LAMBDA x : x.overall_score < h.overall_score)
         IN  before \o <<h>> \o after

\* lines 91 and 97: reflection_map.get(hypothesis_id), the last entry with
\* that id, or <<>> when there is none
ReflectionFor(reflection_results, id) ==
    LET at == {i \in 1..Len(reflection_results) :
                  /\ "hypothesis_id" \in reflection_results[i].keys
                  /\ reflection_results[i].hypothesis_id = id}
    IN  IF at = {} THEN <<>>
        ELSE <<reflection_results[CHOOSE i \in at : \A j \in at : j <= i]>>

\* lines 102-107: the reflection made up for a hypothesis that has none
DefaultReflection(id) ==
    [keys |-> {"hypothesis_id", "coherence_score", "supporting_facts", "contradictions"},
     nones |-> {}, hypothesis_id |-> id, coherence_score |-> 50,
     is_coherent |-> TRUE, has_supporting_evidence |-> FALSE,
     supporting_facts |-> <<>>, contradictions |-> <<>>]

\* the keys lines 118-123 add to a hypothesis
RankedKeys == {"scores", "overall_score", "rank_explanation"}

\* lines 95-125: the body of the loop, [raised, record]
RankOne(hypothesis, reflection_results, web_data, query, reply) ==
    LET
        \* _generate_explanation, lines 549-595
        GenerateExplanation(scores, reflection) ==
            LET facts == IF "supporting_facts" \in reflection.keys
                         THEN Len(reflection.supporting_facts) ELSE 0
                contras == IF "contradictions" \in reflection.keys
                           THEN Len(reflection.contradictions) ELSE 0
            IN  <<IF scores.coherence >= 80 THEN "logically coherent"
                  ELSE IF scores.coherence >= 50 THEN "somewhat coherent"
                  ELSE "lacks logical coherence">>
                \o <<IF facts > 3 THEN "strongly supported"
                     ELSE IF facts > 0 THEN "supported" ELSE "lacks supporting evidence">>
                \o (IF contras > 0 THEN <<"has contradicting points">> ELSE <<>>)
                \o <<IF scores.relevance >= 80 THEN "highly relevant"
                     ELSE IF scores.relevance >= 50 THEN "moderately relevant"
                     ELSE "not very relevant">>
                \o <<IF scores.llm_credibility >= 80 THEN "highly credible"
                     ELSE IF scores.llm_credibility >= 60 THEN "credible"
                     ELSE IF scores.llm_credibility >= 40 THEN "mixed credibility"
                     ELSE "potentially unreliable">>
        \* lines 113-116: round(sum(weight * score) * 10, 1) in tenths, a half going
        \* to the even tenth as round() does
        OverallScore(scores) ==
            LET total == SumSeq([i \in 1..6 |->
                            LET c == <<"coherence", "evidence", "relevance", "specificity",
                                       "novelty", "llm_credibility">>[i]
                            IN  Weights[c] * scores[c]])
                q == total \div 100
                r == total % 100
            IN  IF r > 50 \/ (r = 50 /\ q % 2 = 1) THEN q + 1 ELSE q
        CalculateScores(reflection) ==
            LET
                \* _calculate_llm_credibility, lines 476-547, for the oracle's reply
                CalculateLlmCredibility ==
                    CASE reply.kind = "none"   -> 50
                      [] reply.kind = "text"   -> 50
                      [] reply.kind = "number" -> Max(0, Min(100, reply.value))
                \* the items whose content is a str (isinstance(content, str))
                TextItems == SelectSeq(web_data, LAMBDA d : ~d.contentNone)
                \* _calculate_novelty, lines 442-474: one minus the mean Jaccard similarity
                CalculateNovelty(statement) ==
                    LET statement_words == Range(LowerText(statement))
                        items == TextItems
                        similarities ==
                            [i \in 1..Len(items) |->
                                LET content_words == ContentWords(items[i].content)
                                IN  (100 * Cardinality(statement_words \cap content_words))
                                        \div Max(1, Cardinality(statement_words \cup content_words))]
                    IN  IF web_data = <<>> \/ similarities = <<>> THEN 50
                        ELSE 100 - (SumSeq(similarities) \div Len(similarities))
                \* _calculate_specificity, lines 422-440
                CalculateSpecificity(statement) ==
                    LET
                        SpecificityIndicators == {"specific", "precisely", "exactly", "particularly",
                                                  "uniquely", "distinct", "specialized", "detailed"}
                        \* any(c.isdigit() for c in statement), on the words of the model's texts
                        HasNumbers == \E i \in 1..Len(statement) : statement[i] \in {"2030", "50"}
                        length_factor == Min(100, TextLen(statement))
                        number_factor == IF HasNumbers THEN 20 ELSE 0
                        indicator_factor ==
                            10 * Cardinality(SpecificityIndicators \cap Range(LowerText(statement)))
                    IN  Min(100, (50 * length_factor + 30 * number_factor
                                  + 20 * Min(100, indicator_factor)) \div 100)
                \* _calculate_relevance, lines 388-420; a term occurs in a text when it is
                \* one of its words, and a quotient is cut to hundredths
                CalculateRelevance(statement) ==
                    LET statement_words == Range(LowerText(statement))
                        query_words == Range(LowerText(query))
                        overlap == (100 * Cardinality(statement_words \cap query_words))
                                       \div Max(1, Cardinality(query_words))
                        query_terms == {w \in query_words : Len(w) > 3}
                        items == TextItems
                        relevant_terms == {t \in query_terms :
                                              \E i \in 1..Len(items) : t \in ContentWords(items[i].content)}
                        covered_terms == {t \in relevant_terms : t \in statement_words}
                        query_term_coverage ==
                            IF relevant_terms = {} THEN 0
                            ELSE (100 * Cardinality(covered_terms)) \div Cardinality(relevant_terms)
                    IN  Min(100, (40 * overlap + 60 * query_term_coverage) \div 100)
                statement == IF "statement" \in hypothesis.keys THEN hypothesis.statement ELSE <<>>
                coherence_score == IF "coherence_score" \in reflection.keys
                                   THEN reflection.coherence_score ELSE 50
                supporting_facts == IF "supporting_facts" \in reflection.keys
                                    THEN reflection.supporting_facts ELSE <<>>
                contradictions == IF "contradictions" \in reflection.keys
                                  THEN reflection.contradictions ELSE <<>>
                evidence_score == Max(10, Min(100, 20 * Len(supporting_facts))
                                          - Min(50, 20 * Len(contradictions)))
            IN  [coherence |-> coherence_score,
                 evidence |-> evidence_score,
                 relevance |-> CalculateRelevance(statement),
                 specificity |-> CalculateSpecificity(statement),
                 novelty |-> CalculateNovelty(statement),
                 llm_credibility |-> CalculateLlmCredibility]
        \* the value of dict.get(key, default): None when the key holds None
        IsNone(d, key) == key \in d.keys /\ key \in d.nones
        \* _calculate_scores, lines 350-386: raises when len() meets None.  The
        \* products are exact here; the float 3 * 0.2 is 0.6000000000000001.
        ScoresRaise(reflection) ==
            IsNone(reflection, "supporting_facts") \/ IsNone(reflection, "contradictions")
        found == ReflectionFor(reflection_results, hypothesis.id)
        reflection == IF found = <<>> THEN DefaultReflection(hypothesis.id) ELSE found[1]
        scores == CalculateScores( reflection)
    IN  IF ScoresRaise(reflection) \/ IsNone(reflection, "coherence_score")
        THEN [raised |-> TRUE, record |-> hypothesis]
        ELSE [raised |-> FALSE,
              record |-> [keys |-> hypothesis.keys \cup RankedKeys,
                          scores |-> scores, overall_score |-> OverallScore(scores),
                          rank_explanation |-> GenerateExplanation(scores, reflection)]
                         @@ hypothesis]

\* lines 157-163: the records of the except branch
FallbackRanking(hypotheses) ==
    [i \in 1..Len(hypotheses) |->
        [keys |-> hypotheses[i].keys \cup RankedKeys \cup {"rank"},
         overall_score |-> 50, rank |-> i, scores |-> [c \in Criteria |-> 50],
         rank_explanation |-> <<"Fallback ranking due to processing error">>]
        @@ hypotheses[i]]

\* lines 131-132 and 645-647: hyp["rank"] = i + 1
AssignRanks(s) == [i \in 1..Len(s) |-> [rank |-> i, keys |-> s[i].keys \cup {"rank"}] @@ s[i]]

\* RankingAgent.rank, lines 597-649: [done, raised, ranked_hypotheses].  A
\* hypothesis without a reflection is passed over (lines 618-621); nothing
\* catches an exception.
RankingRank(c) ==
    LET n == Len(c.hypotheses)
        reflected == SelectSeq([i \in 1..n |-> i], LAMBDA i :
                         ReflectionFor(c.reflection_results, c.hypotheses[i].id) # <<>>)
        each == [k \in 1..Len(reflected) |->
                    RankOne(c.hypotheses[reflected[k]], c.reflection_results,
                            c.web_data, c.query, c.replies[reflected[k]])]
        raises == \/ ~(RankRequiredKeys \subseteq c.keys)
                  \/ \E i \in 1..Len(c.reflection_results) :
                        "hypothesis_id" \notin c.reflection_results[i].keys
                  \/ \E k \in 1..Len(reflected) : each[k].raised
    IN  IF raises THEN [done |-> TRUE, raised |-> TRUE, ranked_hypotheses |-> <<>>]
        ELSE [done |-> TRUE, raised |-> FALSE,
              ranked_hypotheses |->
                  AssignRanks(SortByOverallScore([k \in 1..Len(reflected) |-> each[k].record]))]

\* RankingAgent.process, lines 42-169: the keys of the returned context, its
\* ranked_hypotheses, and the request made to the store
RankingProcess(c) ==
    LET
        n == Len(c.hypotheses)
        keys == c.keys \cup {"session_id"}
        each == [i \in 1..n |-> RankOne(c.hypotheses[i], c.reflection_results,
                                        c.web_data, c.query, c.replies[i])]
        raises == \/ ~ValidateContext(c.keys, RankRequiredKeys)
                  \/ \E i \in 1..Len(c.reflection_results) :
                        "hypothesis_id" \notin c.reflection_results[i].keys
                  \/ \E i \in 1..n : each[i].raised
        ranked == AssignRanks(SortByOverallScore([i \in 1..n |-> each[i].record]))
    IN  IF ~raises
        THEN [path |-> "ok",
              keys |-> keys \cup {"ranked_hypotheses", "ranking_timestamp"}
                            \cup (IF n > 0 THEN {"top_hypothesis"} ELSE {}),
              ranked_hypotheses |-> ranked,
              stored |-> <<[method |-> IF c.item_id = "none" THEN "POST" ELSE "PUT",
                            item_id |-> c.item_id, ranked_hypotheses |-> ranked]>>]
        ELSE IF "ranked_hypotheses" \notin c.keys /\ "hypotheses" \in c.keys
        THEN [path |-> "fallback", keys |-> keys \cup {"ranked_hypotheses"},
              ranked_hypotheses |-> FallbackRanking(c.hypotheses), stored |-> <<>>]
        ELSE [path |-> "except", keys |-> keys,
              ranked_hypotheses |-> c.ranked_hypotheses, stored |-> <<>>]

\* The hypotheses, reflections and oracle replies of the model's Ranking calls
HypPlain == [keys |-> {"id", "statement", "confidence", "sources"},
             statement |-> <<"quantum", "computing", "remains", "hard">>,
             confidence |-> 70, sources |-> <<"s1">>]
HypSpecific == [keys |-> {"id", "statement", "confidence", "sources"},
                statement |-> <<"exactly", "50", "quantum", "computing", "labs", "by", "2030">>,
                confidence |-> 95, sources |-> <<>>]

RankQuery == <<"quantum", "computing", "future">>

\* the entries reflection_results holds for a hypothesis, by kind
ReflectionEntries(kind, id) ==
    LET
        EntryKeys == ReflectionFields \cup {"hypothesis_id", "query"}
        \* a reflection entry with nfacts supporting facts and ncontras contradictions
        RankEntry(keys, nones, score, nfacts, ncontras) ==
            [keys |-> keys, nones |-> nones, hypothesis_id |-> id, coherence_score |-> score,
             is_coherent |-> score >= 50, has_supporting_evidence |-> nfacts > 0,
             supporting_facts |-> [j \in 1..nfacts |-> [fact |-> <<"quantum", "fact", j>>, source |-> "s1"]],
             contradictions |-> [j \in 1..ncontras |-> [contradiction |-> <<"not", "quantum", j>>,
                                                         source |-> "s1"]]]
    IN
    CASE kind = "good"      -> <<RankEntry(EntryKeys, {}, 80, 4, 0)>>
      [] kind = "weak"      -> <<RankEntry(EntryKeys, {}, 40, 1, 1)>>
      [] kind = "missing"   -> <<>>
      [] kind = "noId"      -> <<RankEntry(EntryKeys \ {"hypothesis_id"}, {}, 80, 4, 0)>>
      [] kind = "nullScore" -> <<RankEntry(EntryKeys, {"coherence_score"}, 0, 1, 0)>>
      [] kind = "nullFacts" -> <<RankEntry(EntryKeys, {"supporting_facts"}, 80, 0, 0)>>
      \* the dict Reflection keeps for an empty oracle reply
      [] kind = "error"     -> <<RankEntry({"error", "hypothesis_id", "query"}, {}, 0, 0, 0)>>

RECURSIVE Flatten(_)
Flatten(ss) == IF ss = <<>> THEN <<>> ELSE Head(ss) \o Flatten(Tail(ss))

InitRank ==
    LET
        RankIdle == [done |-> FALSE, path |-> "none", keys |-> {}, ranked_hypotheses |-> <<>>,
                     stored |-> <<>>]
        \* The contexts of the model.  A first call of a session: no ranking in the
        \* context or in the store, every reflection well-formed or missing, every
        \* choice of evidence and oracle reply.  And the other calls: a context that
        \* may hold an earlier ranking, a store that may hold one, a key that may be
        \* missing, reflection entries that may be malformed; there the oracle is not
        \* asked before the exception, so its replies do not vary.
        RankInputs(hyps) ==
            LET
                RankContext(keys, stale, kinds, web_data, replies, item_id) ==
                    LET
                        \* ranked_hypotheses as an earlier cycle left it in the context
                        StaleRanked == FallbackRanking(<<[id |-> <<"old", 1>>] @@ HypPlain>>)
                    IN
                    [keys |-> keys \cup (IF stale THEN {"ranked_hypotheses"} ELSE {}),
                     ranked_hypotheses |-> IF stale THEN StaleRanked ELSE <<>>,
                     hypotheses |-> WithIds(hyps), query |-> RankQuery, web_data |-> web_data,
                     reflection_results |->
                         Flatten([i \in 1..Len(hyps) |-> ReflectionEntries(kinds[i], <<"hyp", i>>)]),
                     replies |-> replies, item_id |-> item_id]
                CredibilityReplies == {[kind |-> "none", value |-> 0], [kind |-> "number", value |-> 170]}
            IN
            {RankContext(RankRequiredKeys, FALSE, kinds, web_data, replies, "none") :
                kinds \in [1..Len(hyps) -> {"good", "weak", "missing"}],
                web_data \in {<<>>, <<EvidenceGood>>},
                replies \in [1..Len(hyps) -> CredibilityReplies]}
            \cup
            IF \E i \in 1..Len(hyps) : hyps[i] # HypPlain THEN {}
            ELSE {RankContext(RankRequiredKeys \ missing, stale, kinds, <<EvidenceNone>>,
                              [i \in 1..Len(hyps) |-> [kind |-> "none", value |-> 0]], item_id) :
                     stale \in BOOLEAN,
                     item_id \in {"none", "item-1"},
                     missing \in {{}, {"web_data"}, {"hypotheses"}},
                     kinds \in [1..Len(hyps) -> {"good", "noId", "nullScore", "nullFacts"}]}
        RankHypKinds == {HypPlain, HypSpecific}
    IN
    /\ \E hyps \in SeqsUpTo(RankHypKinds, MaxRanked) :
          rank \in [in : RankInputs(hyps), call : {RankIdle},
                    listed : {[done |-> FALSE, raised |-> FALSE, ranked_hypotheses |-> <<>>]}]
    /\ gen = [idle |-> TRUE]
    /\ refl = [idle |-> TRUE]
    /\ evo = [idle |-> TRUE]
    /\ sess = [idle |-> TRUE]
    /\ meta = [idle |-> TRUE]
    /\ parse = [idle |-> TRUE]
    /\ ext = [idle |-> TRUE]

\* a call of RankingAgent.process(context)
RankProcess ==
    /\ ~rank.call.done
    /\ rank' = [rank EXCEPT !.call = [done |-> TRUE] @@ RankingProcess(rank.in)]
    /\ UNCHANGED <<gen, refl, evo, sess, meta, parse, ext>>

\* a call of RankingAgent.rank(context) on the context process was given
RankRank ==
    /\ rank.call.done
    /\ ~rank.listed.done
    /\ rank' = [rank EXCEPT !.listed = RankingRank(rank.in)]
    /\ UNCHANGED <<gen, refl, evo, sess, meta, parse, ext>>

NextRank == RankProcess \/ RankRank

SpecRank == InitRank /\ [][NextRank]_vars

----------------------------------------------------------------------------
(* Evolution: src/agents/evolution_agent.py *)

MaxEvolve == 5      \* longest ranked list given to Evolution
MaxCycle == 2       \* last cycle number

EvoRequiredKeys == {"query", "ranked_hypotheses", "reflection_results", "cycle", "session_id"}

\* hyp.get("scores", {}).get("evidence", 0) and hyp.get("overall_score", 0)
EvidenceOf(hyp) == IF "scores" \in hyp.keys THEN hyp.scores.evidence ELSE 0
OverallOf(hyp) == IF "overall_score" \in hyp.keys THEN hyp.overall_score ELSE 0

\* the loop of _select_hypotheses_to_evolve with the tests >= 0.6 and <= 8.0
RECURSIVE SelectMoreInclusive(_, _)
SelectMoreInclusive(rest, to_evolve) ==
    IF rest = <<>> THEN to_evolve
    ELSE LET hyp == Head(rest)
             added == IF EvidenceOf(hyp) >= 60 /\ OverallOf(hyp) <= 80
                      THEN Append(to_evolve, hyp.id) ELSE to_evolve
         IN  IF Len(added) >= 3 THEN added ELSE SelectMoreInclusive(Tail(rest), added)

\* _select_hypotheses_to_evolve, lines 207-219: the loop over the hypotheses
\* after the first
RECURSIVE SelectMore(_, _)
SelectMore(rest, to_evolve) ==
    IF rest = <<>> THEN to_evolve
    ELSE LET hyp == Head(rest)
             added == IF EvidenceOf(hyp) > 60 /\ OverallOf(hyp) < 80
                      THEN Append(to_evolve, hyp.id) ELSE to_evolve
         IN  IF Len(added) >= 3 THEN added ELSE SelectMore(Tail(rest), added)

\* _select_hypotheses_to_evolve, lines 189-221
SelectHypothesesToEvolve(ranked_hypotheses) ==
    IF ranked_hypotheses = <<>> THEN <<>>
    ELSE SelectMore(Tail(ranked_hypotheses), <<ranked_hypotheses[1].id>>)

\* _gather_additional_data, lines 314-338, the searches returning results:
\* result["url"] raises KeyError for a result without that key, the handler
\* raises it again and the term is given up; a scraped content that is no
\* str cannot be sliced and the result is skipped
RECURSIVE DataOfResults(_)
DataOfResults(results) ==
    IF results = <<>> THEN <<>>
    ELSE LET result == Head(results)
         IN  IF "url" \notin result.keys THEN <<>>
             ELSE (IF result.scraped = "str"
                   THEN <<[source |-> result.url, title |-> result.title,
                           content |-> result.content]>>
                   ELSE <<>>) \o DataOfResults(Tail(results))

GatherAdditionalData(search_terms, results) ==
    Flatten([k \in 1..Len(search_terms) |-> DataOfResults(Take(results, 2))])

\* the issues _refine_hypothesis, lines 240-246, reads from the reflection
Issues(reflection) ==
    (IF ~reflection.is_coherent THEN {"coherence"} ELSE {})
    \cup (IF ~reflection.has_supporting_evidence THEN {"evidence"} ELSE {})
    \cup (IF reflection.contradictions # <<>> THEN {"contradictions"} ELSE {})

\* _refine_hypothesis, lines 223-265
RefineHypothesis(hypothesis, reflection, query, cycle, pick, results) ==
    LET
        \* random.choice(options), the draw being the call's pick
        RandomChoice(options) == options[((pick - 1) % Len(options)) + 1]
        \* _make_more_specific, lines 388-402; no statement of the model ends with a
        \* punctuation mark
        MakeMoreSpecific(statement) ==
            LET
                SpecificityPhrases == <<"especially in the context of", "particularly when considering",
                                        "with notable impact on", "which is critical for">>
            IN
            statement \o <<RandomChoice(SpecificityPhrases)>> \o query
        \* _incorporate_evidence, lines 340-386
        IncorporateEvidence(statement, additional_data) ==
            LET
                EvidencePhrases == <<"Research indicates that", "Evidence suggests that",
                                     "Studies have shown that", "According to research,">>
                statement_words == Range(LowerText(statement))
                sentences == Flatten([i \in 1..Len(additional_data) |->
                                 SelectSeq(additional_data[i].content, LAMBDA x : TextLen(x) > 10)])
                relevant_sentences == SelectSeq(sentences, LAMBDA x :
                    \/ Cardinality(statement_words \cap Range(LowerText(x))) >= 2
                    \/ \E w \in statement_words : Len(w) > 5 /\ w \in Range(LowerText(x)))
            IN  IF additional_data = <<>> \/ relevant_sentences = <<>> THEN statement
                ELSE <<RandomChoice(EvidencePhrases)>> \o statement
                     \o (IF reflection.contradictions # <<>>
                         THEN <<"although some limitations exist.">> ELSE <<>>)
        GenerateTargetedSearchTerms(statement) ==
            LET words == LowerText(statement)
                key_terms == SelectSeq(words, LAMBDA w :
                                Len(w) > 4 /\ w \notin {"could", "would", "should", "might",
                                                        "because", "therefore"})
                query_terms == LowerText(query)
            IN  [k \in 1..3 |-> <<(<<"evidence", "research", "example">>)[k]>>
                                \o Take(key_terms, 2) \o <<query_terms[1]>>]
        \* _improve_coherence, lines 267-288; the statements of the model have no
        \* more than 20 words, so lines 270-280 leave them as they are
        ImproveCoherence(statement) ==
            LET
                LogicalConnectors == {<<"because">>, <<"therefore">>, <<"consequently">>, <<"as", "a", "result">>}
            IN
            IF \E c \in LogicalConnectors : Contains(LowerText(statement), c)
            THEN statement
            ELSE Append(statement, RandomChoice(<<"because", "which">>))
        issues == Issues(reflection)
        coherent == IF "coherence" \in issues
                    THEN ImproveCoherence(hypothesis.statement)
                    ELSE hypothesis.statement
        evidenced ==
            IF issues \cap {"evidence", "contradictions"} # {}
            THEN IncorporateEvidence(coherent,
                    GatherAdditionalData(GenerateTargetedSearchTerms(coherent), results))
            ELSE coherent
    IN  IF cycle > 1 /\ issues = {} THEN MakeMoreSpecific(evidenced)
        ELSE evidenced

\* lines 458-466 with the confidence left uncapped
EvolvedHypothesisUncapped(hypothesis, refined_statement, cycle) ==
    [keys |-> {"id", "parent_id", "statement", "confidence", "sources", "evolved_at",
               "evolution_cycle"},
     id |-> <<hypothesis.id, "evolved", cycle>>,
     parent_id |-> hypothesis.id,
     statement |-> refined_statement,
     confidence |-> (IF "confidence" \in hypothesis.keys THEN hypothesis.confidence ELSE 50) + 10,
     sources |-> IF "sources" \in hypothesis.keys THEN hypothesis.sources ELSE <<>>,
     evolution_cycle |-> cycle]

\* evolve, lines 458-466: the evolved record; its id "<id>-evolved-<cycle>"
\* is held as the three parts, evolved_at (the clock) is left out
EvolvedHypothesis(hypothesis, refined_statement, cycle) ==
    [keys |-> {"id", "parent_id", "statement", "confidence", "sources", "evolved_at",
               "evolution_cycle"},
     id |-> <<hypothesis.id, "evolved", cycle>>,
     parent_id |-> hypothesis.id,
     statement |-> refined_statement,
     confidence |-> Min(100, (IF "confidence" \in hypothesis.keys
                              THEN hypothesis.confidence ELSE 50) + 10),
     sources |-> IF "sources" \in hypothesis.keys THEN hypothesis.sources ELSE <<>>,
     evolution_cycle |-> cycle]

\* evolve, lines 444-481, the body of the loop: [raised, record, detail]
EvolveOne(hypothesis, hypotheses_to_evolve, reflection_results, query, cycle, pick, results) ==
    LET
        \* _get_evolution_reason, lines 404-423
        GetEvolutionReason(reflection) ==
            LET reasons ==
                    (IF ~reflection.is_coherent THEN <<"improved logical coherence">> ELSE <<>>)
                    \o (IF ~reflection.has_supporting_evidence
                        THEN <<"added supporting evidence">> ELSE <<>>)
                    \o (IF reflection.contradictions # <<>>
                        THEN <<"addressed contradictions">> ELSE <<>>)
            IN  IF reasons # <<>> THEN reasons
                ELSE IF OverallOf(hypothesis) < 70 THEN <<"enhanced overall quality">>
                ELSE <<"refined with more specific details">>
        \* _refine_hypothesis raises KeyError for a hypothesis without statement or
        \* a reflection without one of the three fields, IndexError for a search
        \* with an empty query
        RefineRaises(reflection) ==
            LET
                \* _generate_targeted_search_terms, lines 290-312; query_terms[0] raises
                \* IndexError for a query without words
                SearchTermsRaise == query = <<>>
            IN
            \/ "statement" \notin hypothesis.keys
            \/ ~({"is_coherent", "has_supporting_evidence", "contradictions"} \subseteq reflection.keys)
            \/ /\ Issues(reflection) \cap {"evidence", "contradictions"} # {}
               /\ SearchTermsRaise
        found == ReflectionFor(reflection_results, hypothesis.id)
        reflection == found[1]
        refined == RefineHypothesis(hypothesis, reflection, query, cycle, pick, results)
        evolved == EvolvedHypothesis(hypothesis, refined, cycle)
    IN  IF found = <<>> \/ hypothesis.id \notin Range(hypotheses_to_evolve)
        THEN [raised |-> FALSE, record |-> hypothesis, detail |-> <<>>]
        ELSE IF RefineRaises( reflection)
        THEN [raised |-> TRUE, record |-> hypothesis, detail |-> <<>>]
        ELSE [raised |-> FALSE, record |-> evolved,
              detail |-> <<[original_id |-> hypothesis.id, evolved_id |-> evolved.id,
                            original_statement |-> hypothesis.statement,
                            evolved_statement |-> refined,
                            evolution_reason |-> GetEvolutionReason( reflection)]>>]

\* evolve that leaves out the hypotheses it has no reflection for
EvolveSkipsUnreflected(ranked_hypotheses, hypotheses_to_evolve, reflection_results, query, cycle, pick, results) ==
    LET kept == SelectSeq(ranked_hypotheses,
                    LAMBDA h : ReflectionFor(reflection_results, h.id) # <<>>)
        each == [i \in 1..Len(kept) |->
                    EvolveOne(kept[i], hypotheses_to_evolve, reflection_results,
                              query, cycle, pick, results)]
    IN  [raised |-> \E i \in 1..Len(kept) : each[i].raised,
         evolved_hypotheses |-> [i \in 1..Len(kept) |-> each[i].record],
         evolution_details |-> Flatten([i \in 1..Len(kept) |-> each[i].detail])]

\* EvolutionAgent.evolve, lines 425-483: [raised, evolved_hypotheses,
\* evolution_details]
Evolve(ranked_hypotheses, hypotheses_to_evolve, reflection_results, query, cycle, pick, results) ==
    LET n == Len(ranked_hypotheses)
        each == [i \in 1..n |->
                    EvolveOne(ranked_hypotheses[i], hypotheses_to_evolve, reflection_results,
                              query, cycle, pick, results)]
    IN  [raised |-> \E i \in 1..n : each[i].raised,
         evolved_hypotheses |-> [i \in 1..n |-> each[i].record],
         evolution_details |-> Flatten([i \in 1..n |-> each[i].detail])]

\* EvolutionAgent.process, lines 34-91: the keys of the returned context, its
\* evolved_hypotheses and evolution_details, the ids selected, and the
\* requests made to the store
EvolutionProcess(c) ==
    LET
        \* _update_mcps and _create_new_hypothesis_in_mcps, lines 93-187: the
        \* requests sent for one hypothesis of the evolved list; put_status is the
        \* store's answer to the PUT
        McpsRequests(hypothesis, evolution_details, session_id, put_status) ==
            LET at == {k \in 1..Len(evolution_details) :
                          evolution_details[k].evolved_id = hypothesis.id}
                reason == IF at = {} THEN "Hypothesis evolved"
                          ELSE evolution_details[CHOOSE k \in at : \A j \in at : k <= j].evolution_reason
                relevance == Min(100, 70 + (hypothesis.confidence * 30) \div 100)
            IN  IF "parent_id" \notin hypothesis.keys THEN <<>>
                ELSE <<[method |-> "PUT", item_id |-> hypothesis.parent_id,
                        data |-> [statement |-> hypothesis.statement,
                                  confidence |-> hypothesis.confidence,
                                  evolution_cycle |-> hypothesis.evolution_cycle,
                                  evolution_reason |-> reason],
                        relevance |-> relevance]>>
                     \o (IF put_status = 404
                         THEN <<[method |-> "POST", session_id |-> session_id,
                                 type |-> "evolved_hypothesis",
                                 data |-> [id |-> hypothesis.id, parent_id |-> hypothesis.parent_id,
                                           statement |-> hypothesis.statement,
                                           confidence |-> hypothesis.confidence,
                                           sources |-> hypothesis.sources,
                                           evolution_cycle |-> hypothesis.evolution_cycle,
                                           evolution_reason |-> reason],
                                 relevance |-> relevance]>>
                         ELSE <<>>)
        invalid == \/ ~ValidateContext(c.keys, EvoRequiredKeys)
                   \/ \E i \in 1..Len(c.reflection_results) :
                         "hypothesis_id" \notin c.reflection_results[i].keys
        hypotheses_to_evolve == SelectHypothesesToEvolve(c.ranked_hypotheses)
        made == Evolve(c.ranked_hypotheses, hypotheses_to_evolve, c.reflection_results,
                       c.query, c.cycle, c.pick, c.results)
        caught == [path |-> IF "evolved_hypotheses" \notin c.keys
                               /\ "ranked_hypotheses" \in c.keys
                            THEN "fallback" ELSE "except",
                   keys |-> IF "ranked_hypotheses" \in c.keys
                            THEN c.keys \cup {"evolved_hypotheses"} ELSE c.keys,
                   evolved_hypotheses |->
                       IF "evolved_hypotheses" \in c.keys THEN c.evolved_hypotheses
                       ELSE IF "ranked_hypotheses" \in c.keys THEN c.ranked_hypotheses
                       ELSE <<>>,
                   evolution_details |-> <<>>, stored |-> <<>>]
    IN  IF invalid
        THEN [selected |-> FALSE, to_evolve |-> <<>>] @@ caught
        ELSE IF made.raised
        THEN [selected |-> TRUE, to_evolve |-> hypotheses_to_evolve] @@ caught
        ELSE [selected |-> TRUE, to_evolve |-> hypotheses_to_evolve, path |-> "ok",
              keys |-> c.keys \cup {"evolved_hypotheses", "evolution_details",
                                    "evolution_timestamp"},
              evolved_hypotheses |-> made.evolved_hypotheses,
              evolution_details |-> made.evolution_details,
              stored |-> Flatten([i \in 1..Len(made.evolved_hypotheses) |->
                            McpsRequests(made.evolved_hypotheses[i], made.evolution_details,
                                         c.session_id, c.put_status)])]

\* a hypothesis as Ranking leaves it, with its overall score and evidence score
Ranked(hypothesis, overall, evidence) ==
    [keys |-> hypothesis.keys \cup RankedKeys \cup {"rank"},
     scores |-> [c \in Criteria |-> IF c = "evidence" THEN evidence ELSE 50],
     overall_score |-> overall, rank_explanation |-> <<"ranked">>, rank |-> 0]
    @@ hypothesis

RkTop  == Ranked(HypSpecific, 85, 80)
RkRoom == Ranked(HypPlain, 55, 80)

\* the lists of up to n kinds in descending order of overall score
RECURSIVE RankedKinds(_)
RankedKinds(n) ==
    LET
        EvoKinds ==
            LET
                RkPoor ==
                    LET
                        \* The ranked lists, reflections and answers of the model's Evolution calls
                        HypNoConfidence == [keys |-> {"id", "statement", "sources"},
                                            statement |-> <<"neural", "future">>, confidence |-> 0,
                                            sources |-> <<"s2">>]
                    IN  Ranked(HypNoConfidence, 30, 10)
                RkEdge == Ranked(HypPlain, 55, 60)
                RkHigh == Ranked(HypPlain, 80, 80)
            IN  {RkTop, RkHigh, RkRoom, RkEdge, RkPoor}
    IN
    IF n = 0 THEN {<<>>}
    ELSE LET shorter == RankedKinds(n - 1)
             longest == {t \in shorter : Len(t) = n - 1}
         IN  shorter \cup
             {Append(p[1], p[2]) :
                 p \in {q \in longest \X EvoKinds :
                           q[1] = <<>> \/ q[1][Len(q[1])].overall_score >= q[2].overall_score}}

\* ids and ranks by position, as Ranking assigns them
WithRanks(kinds) == [i \in 1..Len(kinds) |-> [id |-> <<"hyp", i>>, rank |-> i] @@ kinds[i]]

InitEvo ==
    LET
        EvoIdle == [done |-> FALSE, path |-> "none", keys |-> {}, selected |-> FALSE,
                    to_evolve |-> <<>>, evolved_hypotheses |-> <<>>, evolution_details |-> <<>>,
                    stored |-> <<>>]
        \* The contexts of the model.  Every ranked list with sound reflections,
        \* every cycle and every random draw.  And, for the short lists in which
        \* every hypothesis is selected: reflections that are weak, missing or the
        \* record of an empty oracle reply, an empty query, a missing key, an
        \* earlier evolved list in the context, and either answer of the store.
        EvoInputs ==
            LET
                EvoContext(keys, stale, ranked, kinds, query, cycle, pick, results, put_status) ==
                    LET
                        \* evolved_hypotheses as an earlier cycle left it in the context
                        StaleEvolved == <<EvolvedHypothesis([id |-> <<"old", 1>>] @@ HypPlain, HypPlain.statement, 1)>>
                    IN
                    [keys |-> keys \cup (IF stale THEN {"evolved_hypotheses"} ELSE {}),
                     evolved_hypotheses |-> IF stale THEN StaleEvolved ELSE <<>>,
                     ranked_hypotheses |-> WithRanks(ranked),
                     reflection_results |->
                         Flatten([i \in 1..Len(ranked) |-> ReflectionEntries(kinds[i], <<"hyp", i>>)]),
                     query |-> query, cycle |-> cycle, session_id |-> "session-1",
                     pick |-> pick, results |-> results, put_status |-> put_status]
                \* a result of SearchAPI.search (_format_result: title, link, snippet) and
                \* what WebScraper.scrape makes of it (content is a dict or None)
                SearchHit == [keys |-> {"title", "link", "snippet"}, title |-> <<"quantum", "news">>,
                              url |-> "", scraped |-> "dict", content |-> <<>>]
                \* conevo_main.py run_test_cycle, lines 49-92: the test context.  hyp_001 and
                \* hyp_002 are held as <<"hyp", 1>> and <<"hyp", 2>>; "contradictions" is a
                \* bool there, held as the empty list (False) or a list of one (True),
                \* which the code's truth tests read alike; the samples have no "sources"
                TestContext(pick, results, put_status) ==
                    LET Sample(i, statement, confidence, evidence, coherence, originality, overall) ==
                            [keys |-> {"id", "statement", "confidence", "scores", "overall_score"},
                             id |-> <<"hyp", i>>, statement |-> statement, confidence |-> confidence,
                             scores |-> [evidence |-> evidence, coherence |-> coherence,
                                         originality |-> originality],
                             overall_score |-> overall, sources |-> <<>>]
                        SampleReflection(i, coherent, evidence, contras) ==
                            [keys |-> {"hypothesis_id", "is_coherent", "has_supporting_evidence",
                                       "contradictions"},
                             hypothesis_id |-> <<"hyp", i>>, is_coherent |-> coherent,
                             has_supporting_evidence |-> evidence,
                             contradictions |-> IF contras THEN <<TRUE>> ELSE <<>>]
                    IN
                    [keys |-> EvoRequiredKeys, evolved_hypotheses |-> <<>>,
                     ranked_hypotheses |->
                         <<Sample(1, <<"Quantum", "computers", "will", "outperform", "classical",
                                       "computers", "for", "specific", "optimization", "problems.">>,
                                  70, 65, 80, 75, 75),
                           Sample(2, <<"Neural", "interfaces", "will", "become", "mainstream", "for",
                                       "human-computer", "interaction.">>,
                                  60, 70, 60, 80, 70)>>,
                     reflection_results |-> <<SampleReflection(1, TRUE, FALSE, FALSE),
                                              SampleReflection(2, FALSE, TRUE, TRUE)>>,
                     query |-> <<"future", "of", "computing">>, cycle |-> 1,
                     session_id |-> "session-1",
                     pick |-> pick, results |-> results, put_status |-> put_status]
            IN
            {TestContext(pick, results, put_status) :
                pick \in 1..4, results \in {<<>>, <<SearchHit>>, <<SearchHit, SearchHit>>},
                put_status \in {200, 404}}
            \cup
            {EvoContext(EvoRequiredKeys, FALSE, ranked, [i \in 1..Len(ranked) |-> "good"],
                        RankQuery, cycle, pick, <<>>, 200) :
                ranked \in RankedKinds(MaxEvolve), cycle \in 1..MaxCycle, pick \in 1..4}
            \cup
            UNION {
                {EvoContext(EvoRequiredKeys \ missing, stale,
                            [i \in 1..n |-> IF i = 1 THEN RkTop ELSE RkRoom],
                            kinds, query, cycle, 1, results, put_status) :
                    missing \in {{}, {"cycle"}, {"ranked_hypotheses"}},
                    stale \in BOOLEAN,
                    kinds \in [1..n -> {"good", "weak", "missing", "error"}],
                    query \in {RankQuery, <<>>},
                    cycle \in 1..MaxCycle,
                    results \in {<<>>, <<SearchHit>>},
                    put_status \in {200, 404}} :
                n \in 0..MaxHyps}
    IN
    /\ evo \in [in : EvoInputs, call : {EvoIdle}]
    /\ gen = [idle |-> TRUE]
    /\ refl = [idle |-> TRUE]
    /\ rank = [idle |-> TRUE]
    /\ sess = [idle |-> TRUE]
    /\ meta = [idle |-> TRUE]
    /\ parse = [idle |-> TRUE]
    /\ ext = [idle |-> TRUE]

\* a call of EvolutionAgent.process(context)
EvoProcess ==
    /\ ~evo.call.done
    /\ evo' = [evo EXCEPT !.call = [done |-> TRUE] @@ EvolutionProcess(evo.in)]
    /\ UNCHANGED <<gen, refl, rank, sess, meta, parse, ext>>

NextEvo == EvoProcess

SpecEvo == InitEvo /\ [][NextEvo]_vars

\* The context store as the REST contract describes it: items by item id.
\* PUT /context/{item_id} answered 200 replaces the data of that item, any
\* other answer leaves the store alone; POST /context adds an item under an
\* id of the store's choosing (here the position of the request).
RECURSIVE StoreApply(_, _, _)
StoreApply(items, requests, put_status) ==
    IF requests = <<>> THEN items
    ELSE LET r == Head(requests)
             after == IF r.method = "PUT"
                      THEN IF put_status = 200 /\ r.item_id \in DOMAIN items
                           THEN [items EXCEPT ![r.item_id].data = r.data]
                           ELSE items
                      ELSE (<<"item", Len(requests)>> :> [session_id |-> r.session_id,
                                                          type |-> r.type, data |-> r.data])
                           @@ items
         IN  StoreApply(after, Tail(requests), put_status)

\* _update_mcps, lines 122-127: the item the PUT names is the one stored
\* under the parent's id; the store answers 200 when it holds that item
ParentItems(c) ==
    IF c.put_status = 200
    THEN [id \in {c.ranked_hypotheses[i].id : i \in 1..Len(c.ranked_hypotheses)} |->
            LET h == CHOOSE h \in Range(c.ranked_hypotheses) : h.id = id
            IN  [session_id |-> c.session_id, type |-> "hypothesis",
                 data |-> [statement |-> h.statement, confidence |-> h.confidence]]]
    ELSE << >>

\* the store after EvolutionAgent.process has sent its requests (lines 77-78)
EvoStoreAfter == StoreApply(ParentItems(evo.in), evo.call.stored, evo.in.put_status)

----------------------------------------------------------------------------
(* Two sessions and the context store: the requests of the five stages *)

MaxClock == 1        \* last second of the clock
MaxSessCycles == 1   \* cycles a session runs

Sessions == {"session-1", "session-2"}

\* a POST request of a stage call and the store after it
Post(items, session_id, type, query, s, now, answer) ==
    LET
        \* POST /context: the item the store adds, under an id of its own; creator
        \* and writer name the session whose stage call sent the record
        NewItem ==
            [id |-> <<"item", Len(items) + 1>>, session_id |-> session_id, type |-> type,
             query |-> query, data_type |-> "none", creator |-> s, writer |-> s, at |-> now]
    IN
    [requests |-> <<[method |-> "POST", item_id |-> <<>>, session_id |-> session_id,
                     type |-> type, status |-> IF answer = "error" THEN 500 ELSE 200]>>,
     items |-> IF answer = "error" THEN items
               ELSE Append(items, NewItem)]

\* the status of PUT /context/{item_id}
PutStatus(items, item_id, answer) ==
    IF answer = "error" THEN 500
    ELSE IF answer = "missing" \/ ~\E i \in 1..Len(items) : items[i].id = item_id THEN 404
    ELSE 200

\* the store after PUT /context/{item_id}: the data of the item are replaced
PutItems(items, item_id, s, now, answer) ==
    IF PutStatus(items, item_id, answer) # 200 THEN items
    ELSE [i \in 1..Len(items) |->
            IF items[i].id = item_id THEN [items[i] EXCEPT !.writer = s, !.at = now]
            ELSE items[i]]

\* GET /context?session_id=...
SessionItems(items, session_id) == SelectSeq(items, LAMBDA it : it.session_id = session_id)

\* GET /context/search?query=...: the items that belong to the query,
\* whatever their session
SearchItems(items, query) == SelectSeq(items, LAMBDA it : it.query = query)

\* GenerationAgent.process, lines 53-185, with no search result: the id of
\* the hypothesis (line 399) and the POSTs of the hypothesis and the summary
GenerationRequests(items, s, query, now, answer) ==
    LET first == Post(items, s, "hypothesis", <<>>, s, now, answer)
        second == Post(first.items, s, "generation_summary", query, s, now, answer)
    IN  [hyp |-> <<"hyp", now, 0>>, used |-> {},
         requests |-> first.requests \o second.requests, items |-> second.items]

\* ReflectionAgent.process, lines 74-100: the historical reflections put into
\* the prompt (the first two, line 270) and the POST of _store_reflection
ReflectionRequests(items, s, query, now, answer) ==
    LET
        \* _get_historical_reflections, lines 146-198: the ids of the items returned
        GetHistoricalReflections(session_id) ==
            LET mine == SelectSeq(SessionItems(items, session_id), LAMBDA it : it.type = "reflection")
                found == SelectSeq(SearchItems(items, query), LAMBDA it : it.data_type = "reflection")
            IN  IF answer = "error" THEN <<>>
                ELSE IF mine # <<>> THEN [i \in 1..Len(mine) |-> mine[i].id]
                ELSE [i \in 1..Len(found) |-> found[i].id]
        historical == GetHistoricalReflections( s)
        made == Post(items, s, "reflection", query, s, now, answer)
    IN  [used |-> {historical[i] : i \in 1..Min(2, Len(historical))},
         requests |-> made.requests, items |-> made.items]

\* the loops of lines 201-206 and 225-231: the item id kept
RECURSIVE LatestItem(_, _)
LatestItem(found, best) ==
    IF found = <<>> THEN best
    ELSE LatestItem(Tail(found),
                    IF best = <<>> \/ Head(found).at > best[1].at THEN <<Head(found)>> ELSE best)

\* _get_previous_rankings, lines 171-240: [raised, item_id]; item_id is <<>>
\* for None.  With a second ranking result of the search, line 230 calls
\* .get on the list of results and the except branch returns None.
GetPreviousRankings(items, session_id, query, answer) ==
    LET mine == SelectSeq(SessionItems(items, session_id),
                          LAMBDA it : it.type = "ranking_results")
        found == SelectSeq(SearchItems(items, query), LAMBDA it : it.type = "ranking_results")
    IN  IF answer = "error" THEN [raised |-> FALSE, item_id |-> <<>>]
        ELSE IF mine # <<>> THEN [raised |-> FALSE, item_id |-> LatestItem(mine, <<>>)[1].id]
        ELSE IF query = <<>> \/ found = <<>> THEN [raised |-> FALSE, item_id |-> <<>>]
        ELSE IF Len(found) > 1 THEN [raised |-> TRUE, item_id |-> <<>>]
        ELSE [raised |-> FALSE, item_id |-> found[1].id]

\* _update_ranking_results, lines 293-347: the PUT, whose body holds no
\* session_id, and after a 404 or 405 the POST of _store_ranking_results
\* under data.get("session_id", "")
UpdateRankingResults(items, item_id, s, query, now, answer) ==
    LET status == PutStatus(items, item_id, answer)
        put == [method |-> "PUT", item_id |-> item_id, session_id |-> "none",
                type |-> "ranking_results", status |-> status]
        again == Post(items, "", "ranking_results", query, s, now, answer)
    IN  IF status = 404
        THEN [requests |-> <<put>> \o again.requests, items |-> again.items]
        ELSE [requests |-> <<put>>, items |-> PutItems(items, item_id, s, now, answer)]

\* RankingAgent.process, lines 74-148: the requests of one ranking
RankingRequests(items, s, query, now, answer) ==
    LET previous == GetPreviousRankings(items, s, query, answer)
        made == IF previous.item_id # <<>>
                THEN UpdateRankingResults(items, previous.item_id, s, query, now, answer)
                ELSE Post(items, s, "ranking_results", query, s, now, answer)
    IN  [used |-> {}, requests |-> made.requests, items |-> made.items]

\* EvolutionAgent._update_mcps, lines 93-140, for one evolved hypothesis: the
\* PUT under the parent's id and, after a 404, the POST of
\* _create_new_hypothesis_in_mcps
EvolutionRequests(items, s, parent_id, now, answer) ==
    LET status == PutStatus(items, parent_id, answer)
        put == [method |-> "PUT", item_id |-> parent_id, session_id |-> "none",
                type |-> "hypothesis", status |-> status]
        again == Post(items, s, "evolved_hypothesis", <<>>, s, now, answer)
    IN  IF status = 404
        THEN [used |-> {}, requests |-> <<put>> \o again.requests, items |-> again.items]
        ELSE [used |-> {}, requests |-> <<put>>,
              items |-> PutItems(items, parent_id, s, now, answer)]

\* MetaReviewAgent.process, lines 117-134, and _put_meta_insights_to_mcps,
\* lines 145-179: one PUT under a fresh id "meta_review_<cycle_id>_<uuid>";
\* session_id of the record is the cycle_id and is not part of the body
MetaReviewRequests(items, s, cycle_id, now, answer) ==
    LET item_id == <<"meta_review", cycle_id, s, now>>
    IN  [used |-> {},
         requests |-> <<[method |-> "PUT", item_id |-> item_id, session_id |-> "none",
                         type |-> "meta_review",
                         status |-> PutStatus(items, item_id, answer)]>>,
         items |-> PutItems(items, item_id, s, now, answer)]

\* the stage call that session s makes next
StageRequests(stage, items, s, query, hyp, cycle_id, now, answer) ==
    CASE stage = "generation" -> GenerationRequests(items, s, query, now, answer)
      [] stage = "reflection" -> [hyp |-> hyp] @@ ReflectionRequests(items, s, query, now, answer)
      [] stage = "ranking" -> [hyp |-> hyp] @@ RankingRequests(items, s, query, now, answer)
      [] stage = "evolution" -> [hyp |-> hyp] @@ EvolutionRequests(items, s, hyp, now, answer)
      [] stage = "meta_review" ->
            [hyp |-> hyp] @@ MetaReviewRequests(items, s, cycle_id, now, answer)

InitSess ==
    LET
        NoCall == [session |-> "none", stage |-> "none", requests |-> <<>>, used |-> {}]
        SessQueries == {RankQuery, <<"neural", "networks">>}
    IN
    /\ sess \in [store : {<<>>}, clock : {0}, pc : {[s \in Sessions |-> 0]},
                 query : {q \in [Sessions -> SessQueries] : q["session-1"] = RankQuery},
                 hyp : {[s \in Sessions |-> <<>>]}, last : {NoCall}]
    /\ gen = [idle |-> TRUE]
    /\ refl = [idle |-> TRUE]
    /\ rank = [idle |-> TRUE]
    /\ evo = [idle |-> TRUE]
    /\ meta = [idle |-> TRUE]
    /\ parse = [idle |-> TRUE]
    /\ ext = [idle |-> TRUE]

\* one stage call of one session; the stages of a cycle run in order
SessStage(s) ==
    LET
        \* What the store does during one stage call: it works as its contract says
        \* ("ok"), it answers every PUT with 404 ("missing"), or every call fails
        \* with a status that is not 200 or a transport exception ("error")
        StoreAnswers == {"ok", "missing", "error"}
        Stages == <<"generation", "reflection", "ranking", "evolution", "meta_review">>
    IN
    /\ sess.pc[s] < Len(Stages) * MaxSessCycles
    /\ \E answer \in StoreAnswers :
          LET stage == Stages[(sess.pc[s] % Len(Stages)) + 1]
              cycle_id == (sess.pc[s] \div Len(Stages)) + 1
              made == StageRequests(stage, sess.store, s, sess.query[s], sess.hyp[s],
                                    cycle_id, sess.clock, answer)
          IN  sess' = [sess EXCEPT !.store = made.items,
                                   !.pc[s] = @ + 1,
                                   !.hyp[s] = made.hyp,
                                   !.last = [session |-> s, stage |-> stage,
                                             requests |-> made.requests,
                                             used |-> made.used]]
    /\ UNCHANGED <<gen, refl, rank, evo, meta, parse, ext>>

\* a second of the clock passes
SessTick ==
    /\ sess.clock < MaxClock
    /\ sess' = [sess EXCEPT !.clock = @ + 1]
    /\ UNCHANGED <<gen, refl, rank, evo, meta, parse, ext>>

NextSess == SessTick \/ \E s \in Sessions : SessStage(s)

SpecSess == InitSess /\ [][NextSess]_vars

----------------------------------------------------------------------------
(* Oracle replies as text, and Python's json module *)

\* A reply is a sequence of characters.  The characters of the model: the
\* quote, the backslash, the newline, the punctuation of JSON, the letters
\* "a" and "n", the number 0.8, words that stand for the key names, the word
\* json and the fence of three backticks.
Q == "quote"
BS == "backslash"
LF == "newline"
SP == "space"
Whitespace == {LF, SP}
FENCE == "fence"
NUM == "0.8"

MaxStr == 2     \* longest string value inside a reply

Fail == [ok |-> FALSE, t |-> "none", v |-> <<>>, rest |-> <<>>]

\* json.dumps of a string value: its literal between quotes
RECURSIVE Escaped(_)
Escaped(v) ==
    IF v = <<>> THEN <<>>
    ELSE (CASE Head(v) = Q -> <<BS, Q>>
            [] Head(v) = BS -> <<BS, BS>>
            [] Head(v) = LF -> <<BS, "n">>
            [] OTHER -> <<Head(v)>>) \o Escaped(Tail(v))

\* whitespace between the tokens of a JSON text
RECURSIVE SkipWs(_)
SkipWs(t) == IF t # <<>> /\ Head(t) \in Whitespace THEN SkipWs(Tail(t)) ELSE t

\* json.loads, the body of a string literal after its opening quote: an
\* escape is \" \\ or \n, a raw newline is an invalid control character
RECURSIVE ParseChars(_, _)
ParseChars(t, acc) ==
    IF t = <<>> THEN Fail
    ELSE IF Head(t) = Q THEN [ok |-> TRUE, t |-> "str", v |-> acc, rest |-> Tail(t)]
    ELSE IF Head(t) = LF THEN Fail
    ELSE IF Head(t) = BS
    THEN IF Len(t) < 2 THEN Fail
         ELSE IF t[2] \in {Q, BS} THEN ParseChars(Tail(Tail(t)), Append(acc, t[2]))
         ELSE IF t[2] = "n" THEN ParseChars(Tail(Tail(t)), Append(acc, LF))
         ELSE Fail
    ELSE ParseChars(Tail(t), Append(acc, Head(t)))

RECURSIVE ParseValue(_)
RECURSIVE ParseMembers(_, _)
RECURSIVE ParseItems(_, _)

\* json.loads, the members of an object after "{" or ","
ParseMembers(t, acc) ==
    LET s == SkipWs(t)
        key == IF s # <<>> /\ Head(s) = Q THEN ParseChars(Tail(s), <<>>) ELSE Fail
        colon == SkipWs(key.rest)
        val == IF key.ok /\ colon # <<>> /\ Head(colon) = ":"
               THEN ParseValue(Tail(colon)) ELSE Fail
        after == SkipWs(val.rest)
        members == Append(acc, <<key.v, [t |-> val.t, v |-> val.v]>>)
    IN  IF ~val.ok \/ after = <<>> THEN Fail
        ELSE IF Head(after) = "," THEN ParseMembers(Tail(after), members)
        ELSE IF Head(after) = "}"
        THEN [ok |-> TRUE, t |-> "obj", v |-> members, rest |-> Tail(after)]
        ELSE Fail

\* json.loads, the items of an array after "[" or ","
ParseItems(t, acc) ==
    LET val == ParseValue(t)
        after == SkipWs(val.rest)
        items == Append(acc, [t |-> val.t, v |-> val.v])
    IN  IF ~val.ok \/ after = <<>> THEN Fail
        ELSE IF Head(after) = "," THEN ParseItems(Tail(after), items)
        ELSE IF Head(after) = "]"
        THEN [ok |-> TRUE, t |-> "arr", v |-> items, rest |-> Tail(after)]
        ELSE Fail

\* json.loads, one value
ParseValue(t) ==
    LET s == SkipWs(t)
    IN  IF s = <<>> THEN Fail
        ELSE IF Head(s) = Q THEN ParseChars(Tail(s), <<>>)
        ELSE IF Head(s) = NUM THEN [ok |-> TRUE, t |-> "num", v |-> <<>>, rest |-> Tail(s)]
        ELSE IF Head(s) = "{"
        THEN IF SkipWs(Tail(s)) # <<>> /\ Head(SkipWs(Tail(s))) = "}"
             THEN [ok |-> TRUE, t |-> "obj", v |-> <<>>, rest |-> Tail(SkipWs(Tail(s)))]
             ELSE ParseMembers(Tail(s), <<>>)
        ELSE IF Head(s) = "["
        THEN IF SkipWs(Tail(s)) # <<>> /\ Head(SkipWs(Tail(s))) = "]"
             THEN [ok |-> TRUE, t |-> "arr", v |-> <<>>, rest |-> Tail(SkipWs(Tail(s)))]
             ELSE ParseItems(Tail(s), <<>>)
        ELSE Fail

\* json.loads(text): [ok, t, v]; ok is FALSE for JSONDecodeError
JsonLoads(text) ==
    LET val == ParseValue(text)
    IN  IF val.ok /\ SkipWs(val.rest) = <<>>
        THEN [ok |-> TRUE, t |-> val.t, v |-> val.v]
        ELSE [ok |-> FALSE, t |-> "none", v |-> <<>>]

\* text.replace(old, new)
RECURSIVE Replace(_, _, _)
Replace(text, old, new) ==
    IF Len(text) < Len(old) THEN text
    ELSE IF SubSeq(text, 1, Len(old)) = old
    THEN new \o Replace(SubSeq(text, Len(old) + 1, Len(text)), old, new)
    ELSE <<Head(text)>> \o Replace(Tail(text), old, new)

\* the first and the last position of a character in a text, 0 if none
FirstOf(text, c) ==
    IF \E i \in 1..Len(text) : text[i] = c
    THEN CHOOSE i \in 1..Len(text) : text[i] = c /\ \A j \in 1..(i - 1) : text[j] # c
    ELSE 0

LastOf(text, c) ==
    IF \E i \in 1..Len(text) : text[i] = c
    THEN CHOOSE i \in 1..Len(text) : text[i] = c /\ \A j \in (i + 1)..Len(text) : text[j] # c
    ELSE 0

\* str.strip(): whitespace off both ends
RECURSIVE Strip(_)
Strip(text) ==
    IF text # <<>> /\ Head(text) \in Whitespace THEN Strip(Tail(text))
    ELSE IF text # <<>> /\ text[Len(text)] \in Whitespace
    THEN Strip(SubSeq(text, 1, Len(text) - 1))
    ELSE text

\* re.sub(pattern + r'\s*', '', text) for a pattern without wildcards
RECURSIVE RemoveWithSpace(_, _, _)
RemoveWithSpace(text, pattern, skipping) ==
    IF text = <<>> THEN <<>>
    ELSE IF skipping /\ Head(text) \in Whitespace
    THEN RemoveWithSpace(Tail(text), pattern, TRUE)
    ELSE IF Len(text) >= Len(pattern) /\ SubSeq(text, 1, Len(pattern)) = pattern
    THEN RemoveWithSpace(SubSeq(text, Len(pattern) + 1, Len(text)), pattern, TRUE)
    ELSE <<Head(text)>> \o RemoveWithSpace(Tail(text), pattern, FALSE)

\* _clean_json_response, line 552: a backslash that no backslash precedes
\* and no escape character follows is doubled
RECURSIVE DoubleLoneBackslashes(_, _)
DoubleLoneBackslashes(text, before) ==
    LET
        \* the characters that, after a backslash, make an escape the last re.sub of
        \* _clean_json_response leaves alone
        EscapeChars == {Q, BS, "n"}
    IN
    IF text = <<>> THEN <<>>
    ELSE (IF /\ Head(text) = BS
             /\ before # BS
             /\ (Len(text) = 1 \/ text[2] \notin EscapeChars)
          THEN <<BS, BS>> ELSE <<Head(text)>>)
         \o DoubleLoneBackslashes(Tail(text), Head(text))

\* the keys _parse_llm_response looks for, line 621
InsightKeys == {<<"insights">>, <<"recommendations">>, <<"bottlenecks">>}

\* _parse_llm_response, lines 639-668: the lines of a section that start
\* with "-" (no "*" among the characters of the model), without that mark
RECURSIVE ManualItems(_, _)
ManualItems(text, section) ==
    LET stop == IF FirstOf(text, LF) = 0 THEN Len(text) + 1 ELSE FirstOf(text, LF)
        line == Strip(SubSeq(text, 1, stop - 1))
        rest == SubSeq(text, stop + 1, Len(text))
        named == \E i \in 1..Len(line) : <<line[i]>> \in InsightKeys
        has(word) == \E i \in 1..Len(line) : line[i] = word
        now == IF has("insights") THEN <<"insights">>
               ELSE IF has("recommendations") THEN <<"recommendations">>
               ELSE IF has("bottlenecks") THEN <<"bottlenecks">>
               ELSE section
        item == IF ~named /\ line # <<>> /\ section # <<>> /\ Head(line) = "-"
                THEN <<[section |-> section, item |-> Strip(Tail(line))]>> ELSE <<>>
    IN  IF text = <<>> THEN <<>>
        ELSE item \o ManualItems(rest, now)

\* MetaReviewAgent._parse_llm_response, lines 578-676
ParseLlmResponse(llm_response) ==
    LET json_start == FirstOf(llm_response, "{")
        json_end == LastOf(llm_response, "}")
        json_str == Replace(SubSeq(llm_response, json_start, json_end), <<BS>>, <<BS, BS>>)
        first == JsonLoads(json_str)
        second == JsonLoads(Replace(json_str, <<LF>>, <<SP>>))
        manual == ManualItems(llm_response, <<>>)
        keys == {first.v[i][1] : i \in 1..Len(first.v)}
    IN  IF llm_response = <<>> THEN [path |-> "default", t |-> "none", v |-> <<>>]
        ELSE IF json_start > 0 /\ json_end > json_start /\ first.ok
        THEN IF InsightKeys \subseteq keys
             THEN [path |-> "parsed", t |-> first.t, v |-> first.v]
             ELSE [path |-> "default", t |-> "none", v |-> <<>>]
        ELSE IF json_start > 0 /\ json_end > json_start /\ second.ok
        THEN [path |-> "parsed", t |-> second.t, v |-> second.v]
        ELSE IF manual # <<>> THEN [path |-> "manual", t |-> "lines", v |-> manual]
        ELSE [path |-> "default", t |-> "none", v |-> <<>>]

\* re.search(r"```(?:json)?\n(.*?)\n```", response, re.DOTALL): the text
\* between the first fence line and the next newline before a fence,
\* stripped; <<"none">> when there is no such match
RECURSIVE CodeBlock(_)
CodeBlock(response) ==
    LET open == IF Len(response) >= 3 /\ SubSeq(response, 1, 3) = <<FENCE, "json", LF>> THEN 3
                ELSE IF Len(response) >= 2 /\ SubSeq(response, 1, 2) = <<FENCE, LF>> THEN 2
                ELSE 0
        body == SubSeq(response, open + 1, Len(response))
        ends == {i \in 1..(Len(body) - 1) : body[i] = LF /\ body[i + 1] = FENCE}
    IN  IF response = <<>> THEN <<"none">>
        ELSE IF open > 0 /\ ends # {}
        THEN Strip(SubSeq(body, 1, (CHOOSE i \in ends : \A j \in ends : i <= j) - 1))
        ELSE CodeBlock(Tail(response))

\* _sanitize_json_response, line 313: a quote that neither a quote nor a
\* backslash precedes and that no whitespace, comma or closing bracket
\* follows gets a backslash in front
RECURSIVE EscapeInnerQuotes(_, _)
EscapeInnerQuotes(text, before) ==
    IF text = <<>> THEN <<>>
    ELSE (IF /\ Head(text) = Q
             /\ before \notin {Q, BS}
             /\ (Len(text) = 1 \/ text[2] \notin Whitespace \cup {",", "]", "}"})
          THEN <<BS, Q>> ELSE <<Head(text)>>)
         \o EscapeInnerQuotes(Tail(text), Head(text))

\* _sanitize_json_response, line 325: a comma, and the whitespace after it,
\* is dropped before a closing bracket
RECURSIVE DropTrailingCommas(_)
DropTrailingCommas(text) ==
    IF text = <<>> THEN <<>>
    ELSE IF /\ Head(text) = ","
            /\ SkipWs(Tail(text)) # <<>>
            /\ Head(SkipWs(Tail(text))) \in {"]", "}"}
    THEN DropTrailingCommas(SkipWs(Tail(text)))
    ELSE <<Head(text)>> \o DropTrailingCommas(Tail(text))

\* re.findall of lines 421-422: the texts after "statement": " up to the
\* next quote, and the numbers after "confidence":
RECURSIVE FindAfterKey(_, _)
FindAfterKey(text, key) ==
    LET start == <<Q, key, Q>>
        colon == IF Len(text) >= 3 THEN SkipWs(SubSeq(text, 4, Len(text))) ELSE <<>>
        value == IF colon # <<>> /\ Head(colon) = ":" THEN SkipWs(Tail(colon)) ELSE <<>>
        found == /\ Len(text) >= 3
                 /\ SubSeq(text, 1, 3) = start
                 /\ value # <<>>
                 /\ IF key = "statement"
                    THEN Head(value) = Q /\ FirstOf(Tail(value), Q) > 0
                    ELSE Head(value) = NUM
    IN  IF text = <<>> THEN <<>>
        ELSE IF found
        THEN <<IF key = "statement"
               THEN SubSeq(Tail(value), 1, FirstOf(Tail(value), Q) - 1) ELSE <<NUM>>>>
             \o FindAfterKey(IF key = "statement"
                             THEN SubSeq(Tail(value), FirstOf(Tail(value), Q) + 1,
                                         Len(Tail(value)))
                             ELSE Tail(value), key)
        ELSE FindAfterKey(Tail(text), key)

Str(v) == [t |-> "str", v |-> v]

Key(word) == <<Q, word, Q, ":">>

DocText(parser, v) ==
    LET
        StringLiteral == <<Q>> \o Escaped(v) \o <<Q>>
    IN
    CASE parser = "generation" ->
            <<"[", "{">> \o Key("statement") \o StringLiteral \o <<",">>
            \o Key("confidence") \o <<NUM, "}", "]">>
      [] parser = "reflection" ->
            <<"{">> \o Key("comments") \o <<"[">> \o StringLiteral \o <<"]", "}">>
      [] parser = "meta_review" ->
            <<"{">> \o Key("insights") \o <<"[">> \o StringLiteral \o <<"]", ",">>
            \o Key("recommendations") \o <<"[", Q, "a", Q, "]", ",">>
            \o Key("bottlenecks") \o <<"[", "]", "}">>

\* the structure the text DocText(parser, v) stands for
DocValue(parser, v) ==
    LET
        Obj(members) == [t |-> "obj", v |-> members]
        Arr(items) == [t |-> "arr", v |-> items]
    IN
    CASE parser = "generation" ->
            Arr(<<Obj(<< <<<<"statement">>, Str(v)>>,
                         <<<<"confidence">>, [t |-> "num", v |-> <<>>]>> >>)>>)
      [] parser = "reflection" ->
            Obj(<< <<<<"comments">>, Arr(<<Str(v)>>)>> >>)
      [] parser = "meta_review" ->
            Obj(<< <<<<"insights">>, Arr(<<Str(v)>>)>>,
                   <<<<"recommendations">>, Arr(<<Str(<<"a">>)>>)>>,
                   <<<<"bottlenecks">>, Arr(<<>>)>> >>)

InitParse ==
    LET
        ParseIdle == [done |-> FALSE, path |-> "none", t |-> "none", v |-> <<>>]
        ParseInputs ==
            LET
                \* replies that are no JSON at all
                Garbled ==
                    {<<"a", "n">>, <<"{", "a">>, <<Q, "a">>, <<"a", "}", "{">>, <<BS>>,
                     <<"insights", LF, "-", "a", LF, "-", "n">>,
                     <<"a", SP>> \o Key("statement") \o <<Q, "a", Q, SP>> \o Key("confidence") \o <<NUM>>}
                \* the same text between the fence lines of a markdown code block
                Fenced(text) == <<FENCE, "json", LF>> \o text \o <<LF, FENCE>>
                \* The reply texts of the model.  A well-formed reply of the shape each parser
                \* asks for in its prompt, holding one string value v:
                \* Generation a list of one hypothesis entry, Reflection an object with
                \* comments, Meta-Review an object with the three lists.
                Parsers == {"generation", "reflection", "meta_review"}
                \* the characters a string value is made of
                ValueChars == {"a", "n", Q, BS, LF}
            IN
            {[parser |-> p, kind |-> "plain", value |-> v, text |-> DocText(p, v)] :
                p \in Parsers, v \in SeqsUpTo(ValueChars, MaxStr)}
            \cup
            {[parser |-> p, kind |-> "fenced", value |-> v, text |-> Fenced(DocText(p, v))] :
                p \in Parsers, v \in SeqsUpTo(ValueChars, MaxStr)}
            \cup
            {[parser |-> p, kind |-> "garbled", value |-> <<>>, text |-> g] :
                p \in Parsers, g \in Garbled}
    IN
    /\ parse \in [in : ParseInputs, call : {ParseIdle}]
    /\ gen = [idle |-> TRUE]
    /\ refl = [idle |-> TRUE]
    /\ rank = [idle |-> TRUE]
    /\ evo = [idle |-> TRUE]
    /\ sess = [idle |-> TRUE]
    /\ meta = [idle |-> TRUE]
    /\ ext = [idle |-> TRUE]

\* the oracle's reply goes through _generate_hypotheses_with_gemini
ParseGeneration ==
    LET
        \* _generate_hypotheses_with_gemini, lines 365-451, on a reply text: the
        \* entries parsed, the statements found by the regular expressions, or the
        \* fallback generator
        GenerationParse(reply) ==
            LET
                \* an entry of the parsed list that lines 384-386 keep
                IsHypothesisEntry(entry) ==
                    /\ entry.t = "obj"
                    /\ \E i \in 1..Len(entry.v) : entry.v[i][1] = <<"statement">>
                    /\ \E i \in 1..Len(entry.v) : entry.v[i][1] = <<"confidence">>
                \* GenerationAgent._sanitize_json_response, lines 286-332.  The characters of
                \* the model hold no apostrophe and no letter s, so lines 316 and 319 change
                \* nothing.
                SanitizeJsonResponse(response) ==
                    LET block == CodeBlock(response)
                        inner == IF block = <<"none">> THEN response ELSE block
                        escaped == EscapeInnerQuotes(inner, "none")
                        doubled == Replace(escaped, <<BS, Q>>, <<BS, BS, Q>>)
                        trimmed == DropTrailingCommas(doubled)
                    IN  IF response = <<>> THEN <<"[", "]">>
                        ELSE IF JsonLoads(inner).ok THEN inner
                        ELSE IF /\ Strip(trimmed) # <<>>
                                /\ Head(Strip(trimmed)) = "{"
                                /\ Strip(trimmed)[Len(Strip(trimmed))] = "}"
                        THEN <<"[">> \o trimmed \o <<"]">>
                        ELSE trimmed
                parsed == JsonLoads(SanitizeJsonResponse(reply))
                kept == SelectSeq(parsed.v, IsHypothesisEntry)
                statements == FindAfterKey(SanitizeJsonResponse(reply), "statement")
                confidences == FindAfterKey(SanitizeJsonResponse(reply), "confidence")
            IN  IF Strip(reply) = <<>> THEN [path |-> "fallback", t |-> "none", v |-> <<>>]
                ELSE IF parsed.ok
                THEN IF parsed.t # "arr" \/ kept = <<>>
                     THEN [path |-> "fallback", t |-> "none", v |-> <<>>]
                     ELSE [path |-> "parsed", t |-> "arr", v |-> kept]
                ELSE IF statements # <<>> /\ Len(statements) = Len(confidences)
                THEN [path |-> "regex", t |-> "statements", v |-> statements]
                ELSE [path |-> "fallback", t |-> "none", v |-> <<>>]
    IN
    /\ ~parse.call.done
    /\ parse.in.parser = "generation"
    /\ parse' = [parse EXCEPT !.call = [done |-> TRUE] @@ GenerationParse(parse.in.text)]
    /\ UNCHANGED <<gen, refl, rank, evo, sess, meta, ext>>

\* the oracle's reply goes through _reflect_with_gemini
ParseReflection ==
    LET
        \* _reflect_with_gemini, lines 329-369, on a reply text: the parsed object,
        \* the reading of the text by _extract_reflection_from_text after a
        \* JSONDecodeError, or the TypeError of line 347 when the value parsed is no
        \* object, which the caller's fallback (process, lines 89-93) handles
        ReflectionParse(reply) ==
            LET
                \* ReflectionAgent._clean_json_response, lines 527-554
                CleanJsonResponse(response) ==
                    LET
                        \* re.search(r'\{.*\}', text, re.DOTALL): the text from the first "{" that
                        \* has a "}" after it to the last "}", or the whole text
                        BracedPart(text) ==
                            IF FirstOf(text, "{") > 0 /\ LastOf(text, "}") > FirstOf(text, "{")
                            THEN SubSeq(text, FirstOf(text, "{"), LastOf(text, "}"))
                            ELSE text
                        unfenced == RemoveWithSpace(RemoveWithSpace(response, <<FENCE, "json">>, FALSE),
                                                    <<FENCE>>, FALSE)
                        braced == BracedPart(unfenced)
                        unquoted == Replace(braced, <<BS, Q>>, <<Q>>)
                        doubled == Replace(unquoted, <<BS>>, <<BS, BS>>)
                        requoted == Replace(doubled, <<BS, BS, Q>>, <<BS, Q>>)
                    IN  DoubleLoneBackslashes(requoted, "none")
                parsed == JsonLoads(CleanJsonResponse(reply))
            IN  IF Strip(reply) = <<>> THEN [path |-> "empty", t |-> "none", v |-> <<>>]
                ELSE IF ~parsed.ok THEN [path |-> "text", t |-> "none", v |-> <<>>]
                ELSE IF parsed.t # "obj" THEN [path |-> "caller", t |-> "none", v |-> <<>>]
                ELSE [path |-> "parsed", t |-> parsed.t, v |-> parsed.v]
    IN
    /\ ~parse.call.done
    /\ parse.in.parser = "reflection"
    /\ parse' = [parse EXCEPT !.call = [done |-> TRUE] @@ ReflectionParse(parse.in.text)]
    /\ UNCHANGED <<gen, refl, rank, evo, sess, meta, ext>>

\* the oracle's reply goes through _parse_llm_response
ParseMetaReview ==
    /\ ~parse.call.done
    /\ parse.in.parser = "meta_review"
    /\ parse' = [parse EXCEPT !.call = [done |-> TRUE] @@ ParseLlmResponse(parse.in.text)]
    /\ UNCHANGED <<gen, refl, rank, evo, sess, meta, ext>>

NextParse == ParseGeneration \/ ParseReflection \/ ParseMetaReview

SpecParse == InitParse /\ [][NextParse]_vars

----------------------------------------------------------------------------
(* Meta-Review: src/agents/meta_review_agent.py *)

\* Times are tenths of a second, scores tenths of a point, percentages whole
\* per cent and ratios hundredths (rounded down).  A value read by float()
\* is a record [kind, value]: "number", "missing" (the key is absent, so the
\* default 0 is read), "unparsable" (ValueError or TypeError) or "huge" (an
\* int too large for a float: OverflowError).
MaxAgents == 2      \* most agents in agent_outputs

PerformanceDefault ==
    [total_cycle_time |-> 0, agent_times |-> <<>>, bottlenecks |-> <<>>,
     successful_agents |-> <<>>, failed_agents |-> <<>>]

WebDataQualityDefault ==
    [sources_count |-> 0, data_freshness |-> 0, data_relevance |-> 0,
     data_diversity |-> 0, successful_extractions |-> 0, failed_extractions |-> 0]

HypothesisImprovementDefault ==
    [current_score |-> 0, previous_score |-> 0, score_delta |-> 0,
     complexity_increase |-> 0, refinement_count |-> 0, improvement_percentage |-> 0]

\* process, lines 100-102: the insights after a failure of _generate_llm_insights
InsightsAfterFailure ==
    [insights |-> <<"LLM processing failed">>,
     recommendations |-> <<"Check LLM service connection">>,
     bottlenecks |-> <<"LLM processing">>]

\* _analyze_cycle_performance with a bottleneck threshold of half the total
AnalyzeCyclePerformanceHalf(cycle_data) ==
    LET timed == SelectSeq(cycle_data.agent_outputs, LAMBDA a : a.time.kind = "number")
        total == SumSeq([i \in 1..Len(timed) |-> timed[i].time.value])
        names(status) == LET of == SelectSeq(timed, LAMBDA a : (a.status = "success") = status)
                         IN  [i \in 1..Len(of) |-> of[i].name]
        slow == SelectSeq(timed, LAMBDA a : total > 0 /\ 2 * a.time.value > total)
    IN  IF ~cycle_data.isdict
           \/ \E i \in 1..Len(cycle_data.agent_outputs) :
                 cycle_data.agent_outputs[i].time.kind = "huge"
        THEN [raised |-> TRUE, block |-> PerformanceDefault]
        ELSE [raised |-> FALSE,
              block |-> [total_cycle_time |-> total,
                         agent_times |-> [i \in 1..Len(timed) |->
                                             [agent |-> timed[i].name,
                                              time |-> timed[i].time.value]],
                         bottlenecks |-> [i \in 1..Len(slow) |->
                                             [agent |-> slow[i].name,
                                              time |-> slow[i].time.value,
                                              percentage |->
                                                  (slow[i].time.value * 100) \div total]],
                         successful_agents |-> names(TRUE),
                         failed_agents |-> names(FALSE)]]

\* _analyze_cycle_performance, lines 216-265: [raised, block]
AnalyzeCyclePerformance(cycle_data) ==
    LET
        \* _analyze_cycle_performance, lines 240-252: the agents whose execution_time
        \* float() reads, in the order of the dict
        TimedAgents(agent_outputs) == SelectSeq(agent_outputs, LAMBDA a : a.time.kind = "number")
        timed == TimedAgents(cycle_data.agent_outputs)
        total == SumSeq([i \in 1..Len(timed) |-> timed[i].time.value])
        names(status) == LET of == SelectSeq(timed, LAMBDA a : (a.status = "success") = status)
                         IN  [i \in 1..Len(of) |-> of[i].name]
        slow == SelectSeq(timed, LAMBDA a : total > 0 /\ 4 * a.time.value > total)
    IN  IF ~cycle_data.isdict
           \/ \E i \in 1..Len(cycle_data.agent_outputs) :
                 cycle_data.agent_outputs[i].time.kind = "huge"
        THEN [raised |-> TRUE, block |-> PerformanceDefault]
        ELSE [raised |-> FALSE,
              block |-> [total_cycle_time |-> total,
                         agent_times |-> [i \in 1..Len(timed) |->
                                             [agent |-> timed[i].name,
                                              time |-> timed[i].time.value]],
                         bottlenecks |-> [i \in 1..Len(slow) |->
                                             [agent |-> slow[i].name,
                                              time |-> slow[i].time.value,
                                              percentage |->
                                                  (slow[i].time.value * 100) \div total]],
                         successful_agents |-> names(TRUE),
                         failed_agents |-> names(FALSE)]]

\* _evaluate_web_data_quality, lines 267-368, for sources that hold a status
\* and a type but no timestamp and no content: [raised, block]
EvaluateWebDataQuality(cycle_data) ==
    LET sources == cycle_data.sources
        good == SelectSeq(sources, LAMBDA s : s.status = "success")
        types == {sources[i].type : i \in 1..Len(sources)}
    IN  IF ~cycle_data.isdict THEN [raised |-> TRUE, block |-> WebDataQualityDefault]
        ELSE [raised |-> FALSE,
              block |-> [sources_count |-> Len(sources), data_freshness |-> 0,
                         data_relevance |-> 0,
                         data_diversity |-> IF Len(sources) > 0
                                            THEN (Cardinality(types) * 100) \div Len(sources)
                                            ELSE 0,
                         successful_extractions |-> Len(good),
                         failed_extractions |-> Len(sources) - Len(good)]]

\* _measure_hypothesis_improvement, lines 370-434: [raised, block].
\* previous_cycles is the list storage.get_previous_cycles returned.
MeasureHypothesisImprovement(cycle_data, previous_cycles) ==
    LET
        \* _measure_hypothesis_improvement, lines 405-432: the fields written when
        \* the last previous cycle holds a hypothesis with a score float() reads
        AgainstPrevious(block, current_score, current, previous, count) ==
            [block EXCEPT
                !.previous_score = previous.score.value,
                !.score_delta = current_score - previous.score.value,
                !.improvement_percentage =
                    IF previous.score.value > 0
                    THEN ((current_score - previous.score.value) * 100) \div previous.score.value
                    ELSE 0,
                !.complexity_increase =
                    IF previous.text > 0 THEN ((current.text - previous.text) * 100) \div previous.text
                    ELSE 0,
                !.refinement_count = count + 1]
        current == cycle_data.hypothesis
        current_score == IF current.score.kind = "number" THEN current.score.value ELSE 0
        scored == [HypothesisImprovementDefault EXCEPT !.current_score = current_score]
        previous == previous_cycles[Len(previous_cycles)]
        previous_score == IF previous.score.kind = "number" THEN previous.score.value ELSE 0
    IN  IF ~cycle_data.isdict THEN [raised |-> TRUE, block |-> HypothesisImprovementDefault]
        ELSE IF ~current.isdict THEN [raised |-> FALSE, block |-> HypothesisImprovementDefault]
        ELSE IF current.score.kind = "huge"
        THEN [raised |-> TRUE, block |-> HypothesisImprovementDefault]
        ELSE IF previous_cycles = <<>> \/ ~previous.isdict THEN [raised |-> FALSE, block |-> scored]
        ELSE IF previous.score.kind = "huge"
        THEN [raised |-> TRUE, block |-> HypothesisImprovementDefault]
        ELSE IF previous.score.kind = "unparsable" THEN [raised |-> FALSE, block |-> scored]
        ELSE [raised |-> FALSE,
              block |-> AgainstPrevious(scored, current_score, current,
                                        [previous EXCEPT !.score.value = previous_score],
                                        Len(previous_cycles))]

\* _generate_llm_insights, lines 459-494: [raised, called, insights]; the
\* prompt is prepared outside the try block, so its exception passes through
\* and generate_text is not called
GenerateLlmInsights(cycle_data, performance_metrics, previous_cycles, reply) ==
    LET
        \* _prepare_llm_prompt, lines 496-576: TRUE when it raises.  The f-string
        \* of lines 542-574 holds the JSON example between single braces, a
        \* replacement field whose format specifier str.__format__ rejects with
        \* ValueError, whatever the arguments are.
        PrepareLlmPromptRaises == TRUE
    IN
    IF PrepareLlmPromptRaises
    THEN [raised |-> TRUE, called |-> FALSE, path |-> "none", t |-> "none", v |-> <<>>]
    ELSE IF reply.kind = "raises"
    THEN [raised |-> FALSE, called |-> TRUE, path |-> "error", t |-> "none", v |-> <<>>]
    ELSE [raised |-> FALSE, called |-> TRUE] @@ ParseLlmResponse(reply.text)

\* _put_meta_insights_to_mcps, lines 145-179: the request sent
PutMetaInsights(cycle_id, status) ==
    <<[method |-> "PUT", item_id |-> <<"meta_review", cycle_id, "uuid">>, status |-> status]>>

\* process, lines 96-102 and 111-113: what the result holds of the insights
InsightsOf(llm) ==
    [oracle_called |-> llm.called,
     insights_from |-> IF llm.raised THEN "failure" ELSE llm.path,
     insights |-> IF llm.raised THEN InsightsAfterFailure ELSE [t |-> llm.t, v |-> llm.v]]

\* process with the three metric groups inside one try block: a failure of
\* one of them gives all three their defaults
MetaReviewProcessOneTry(task) ==
    LET previous_cycles == IF task.previous_cycles.raises THEN <<>>
                           ELSE task.previous_cycles.list
        performance == AnalyzeCyclePerformance(task.cycle_data)
        web == EvaluateWebDataQuality(task.cycle_data)
        improvement == MeasureHypothesisImprovement(task.cycle_data, previous_cycles)
        failed == performance.raised \/ web.raised \/ improvement.raised
    IN  [outcome |-> "returned",
         cycle_id |-> task.cycle_id,
         performance_metrics |-> IF failed THEN PerformanceDefault ELSE performance.block,
         web_data_quality |-> IF failed THEN WebDataQualityDefault ELSE web.block,
         hypothesis_improvement |-> IF failed THEN HypothesisImprovementDefault
                                    ELSE improvement.block,
         oracle_called |-> FALSE,
         insights_from |-> "failure",
         insights |-> InsightsAfterFailure,
         stored |-> PutMetaInsights(task.cycle_id, task.put_status),
         saved |-> task.save = "ok"]

\* MetaReviewAgent.process, lines 43-143
MetaReviewProcess(task) ==
    LET previous_cycles == IF task.previous_cycles.raises THEN <<>>
                           ELSE task.previous_cycles.list
        performance == AnalyzeCyclePerformance(task.cycle_data)
        web == EvaluateWebDataQuality(task.cycle_data)
        improvement == MeasureHypothesisImprovement(task.cycle_data, previous_cycles)
    IN  [outcome |-> "returned",
         cycle_id |-> task.cycle_id,
         performance_metrics |-> performance.block,
         web_data_quality |-> web.block,
         hypothesis_improvement |-> improvement.block,
         stored |-> PutMetaInsights(task.cycle_id, task.put_status),
         saved |-> task.save = "ok"]
        @@ InsightsOf(GenerateLlmInsights(task.cycle_data, performance.block,
                                          previous_cycles, task.reply))

AgentOutputs ==
    LET
        \* what agent_outputs holds for the i-th agent
        AgentChoices(i) ==
            LET
                AgentTimes == <<25, 12, 8, 5>>
                \* the agents of a cycle in the order of agent_outputs, with the time each
                \* took when it is a number: 2.5 s of generation in a cycle of 3.7 s
                AgentNames == <<"generation", "reflection", "ranking", "evolution">>
            IN
            {[name |-> AgentNames[i], time |-> [kind |-> "number", value |-> AgentTimes[i]],
              status |-> st] : st \in {"success", "failed"}}
            \cup {[name |-> AgentNames[i], time |-> [kind |-> k, value |-> 0], status |-> "success"] :
                     k \in {"unparsable", "huge"}}
    IN
    UNION {{s \in [1..n -> UNION {AgentChoices(i) : i \in 1..n}] :
               \A i \in 1..n : s[i] \in AgentChoices(i)} : n \in 0..MaxAgents}

SourceLists ==
    {<<>>, <<[status |-> "success", type |-> "web"], [status |-> "failed", type |-> "web"]>>}

\* cycle_data["hypothesis"]
CycleHypotheses ==
    {[isdict |-> FALSE, score |-> [kind |-> "missing", value |-> 0], text |-> 0]}
    \cup {[isdict |-> TRUE, score |-> sc, text |-> 6] :
             sc \in {[kind |-> "missing", value |-> 0], [kind |-> "number", value |-> 70],
                     [kind |-> "unparsable", value |-> 0], [kind |-> "huge", value |-> 0]}}

\* what generate_text would do with the prompt
OracleReplies ==
    {[kind |-> "plain", text |-> DocText("meta_review", <<"a">>)],
     [kind |-> "garbled", text |-> <<"a", "n">>],
     [kind |-> "raises", text |-> <<>>]}

InitMeta ==
    LET
        MetaIdle == [outcome |-> "none"]
        MetaInputs ==
            LET
                \* task_data["cycle_data"]: a dict, or something that is not one
                CycleData ==
                    {[isdict |-> FALSE, agent_outputs |-> <<>>, sources |-> <<>>,
                      hypothesis |-> [isdict |-> FALSE, score |-> [kind |-> "missing", value |-> 0],
                                      text |-> 0]]}
                    \cup [isdict : {TRUE}, agent_outputs : AgentOutputs, sources : SourceLists,
                          hypothesis : CycleHypotheses]
                \* what storage.get_previous_cycles does: it raises, or returns a list
                PreviousCycles ==
                    LET
                        \* a previous cycle by its hypothesis; isdict is FALSE when the cycle or its
                        \* hypothesis is not a dict
                        PreviousHypotheses ==
                            {[isdict |-> FALSE, score |-> [kind |-> "missing", value |-> 0], text |-> 0]}
                            \cup {[isdict |-> TRUE, score |-> sc, text |-> 4] :
                                     sc \in {[kind |-> "number", value |-> 0], [kind |-> "number", value |-> 50],
                                             [kind |-> "unparsable", value |-> 0], [kind |-> "huge", value |-> 0]}}
                    IN
                    {[raises |-> TRUE, list |-> <<>>], [raises |-> FALSE, list |-> <<>>]}
                    \cup {[raises |-> FALSE, list |-> <<p>>] : p \in PreviousHypotheses}
                    \cup {[raises |-> FALSE,
                           list |-> <<[isdict |-> TRUE, score |-> [kind |-> "number", value |-> 70],
                                       text |-> 4], p>>] :
                             p \in {q \in PreviousHypotheses : q.score.kind = "number" /\ q.isdict}}
            IN
            [cycle_id : {"test-cycle-1"}, cycle_data : CycleData, previous_cycles : PreviousCycles,
             reply : OracleReplies, put_status : {200, 404}, save : {"ok", "raises"}]
    IN
    /\ meta \in [in : MetaInputs, call : {MetaIdle}]
    /\ gen = [idle |-> TRUE]
    /\ refl = [idle |-> TRUE]
    /\ rank = [idle |-> TRUE]
    /\ evo = [idle |-> TRUE]
    /\ sess = [idle |-> TRUE]
    /\ parse = [idle |-> TRUE]
    /\ ext = [idle |-> TRUE]

\* one call of MetaReviewAgent.process
MetaProcess ==
    /\ meta.call.outcome = "none"
    /\ meta' = [meta EXCEPT !.call = MetaReviewProcess(meta.in)]
    /\ UNCHANGED <<gen, refl, rank, evo, sess, parse, ext>>

NextMeta == MetaProcess

SpecMeta == InitMeta /\ [][NextMeta]_vars

----------------------------------------------------------------------------
(* The services a stage call waits on: the context store, the oracle and   *)
(* the evidence search.  A call of a stage's process sends its requests    *)
(* one after the other and waits for each.                                 *)

retry_attempts == 3     \* SearchAPI.retry_attempts

\* The requests one call of a stage's process waits on, in order, one of
\* each kind: the service, the timeout the code passes to the request in
\* seconds (0: none is passed, and requests then waits without limit) and
\* the attempts the code makes.  The oracle call (generate_text) and the
\* search (GoogleSearch.get_dict) pass no timeout of their own and go
\* through client libraries: lib is whether those bound the wait.
StageCalls(stage, lib) ==
    LET store(timeout) == [service |-> "store", timed |-> timeout > 0, timeout |-> timeout,
                           attempts |-> 1]
        \* utils/gemini_client.py generate_text, lines 7-21: one attempt
        oracle == [service |-> "oracle", timed |-> lib, timeout |-> 0, attempts |-> 1]
        \* SearchAPI._serpapi_search, lines 74-131: retry_attempts attempts
        search == [service |-> "search", timed |-> lib, timeout |-> 0,
                   attempts |-> retry_attempts]
    IN
    CASE stage = "generation" ->
            \* generation_agent.py: search, line 81; oracle, line 363;
            \* requests.post without timeout, lines 235-238
            <<search, oracle, store(0)>>
      [] stage = "reflection" ->
            \* reflection_agent.py: requests.get with timeout=5, lines 159-163;
            \* oracle, line 330; requests.post with timeout=5, lines 228-232
            <<store(5), oracle, store(5)>>
      [] stage = "ranking" ->
            \* ranking_agent.py: requests.get without timeout, lines 186-189;
            \* oracle, line 529; requests.put without timeout, lines 323-327
            <<store(0), oracle, store(0)>>
      [] stage = "evolution" ->
            \* evolution_agent.py: search, line 321; requests.put without
            \* timeout, lines 124-128
            <<search, store(0)>>
      [] stage = "meta_review" ->
            \* meta_review_agent.py: requests.put with timeout=10, lines 162-169
            <<store(10)>>

\* What a service does with every request sent to it: it answers, it
\* answers with a failure (an error status or an exception), or it never
\* answers.
InitExt ==
    /\ ext \in [stage : {"generation", "reflection", "ranking", "evolution", "meta_review"},
                lib : BOOLEAN,
                mode : [{"store", "oracle", "search"} -> {"answers", "fails", "silent"}],
                pc : {"running"}, sent : {0}, attempt : {0}, got : {<<>>}]
    /\ gen = [idle |-> TRUE]
    /\ refl = [idle |-> TRUE]
    /\ rank = [idle |-> TRUE]
    /\ evo = [idle |-> TRUE]
    /\ sess = [idle |-> TRUE]
    /\ meta = [idle |-> TRUE]
    /\ parse = [idle |-> TRUE]

\* the request the stage call is at
ExtCurrent == StageCalls(ext.stage, ext.lib)[ext.sent]

\* the stage sends its next request and waits for the answer
ExtSend ==
    /\ ext.pc = "running"
    /\ ext.sent < Len(StageCalls(ext.stage, ext.lib))
    /\ ext' = [ext EXCEPT !.pc = "waiting", !.sent = @ + 1, !.attempt = 1]
    /\ UNCHANGED <<gen, refl, rank, evo, sess, meta, parse>>

\* the service answers: the helper returns what it read
ExtAnswer ==
    /\ ext.pc = "waiting"
    /\ ext.mode[ExtCurrent.service] = "answers"
    /\ ext' = [ext EXCEPT !.pc = "running",
                          !.got = Append(@, [service |-> ExtCurrent.service, result |-> "data"])]
    /\ UNCHANGED <<gen, refl, rank, evo, sess, meta, parse>>

\* the attempt is over without an answer that can be used: another attempt
\* is made if there is one left, else the helper returns its empty result
\* ([], "", None or False) and raises nothing
ExtGiveUp ==
    IF ext.attempt < ExtCurrent.attempts
    THEN ext' = [ext EXCEPT !.attempt = @ + 1]
    ELSE ext' = [ext EXCEPT !.pc = "running",
                            !.got = Append(@, [service |-> ExtCurrent.service,
                                               result |-> "empty"])]

\* the service answers with a failure, which the helper's except branch or
\* status test catches
ExtFail ==
    /\ ext.pc = "waiting"
    /\ ext.mode[ExtCurrent.service] = "fails"
    /\ ExtGiveUp
    /\ UNCHANGED <<gen, refl, rank, evo, sess, meta, parse>>

\* the timeout of a request that has one expires: requests raises Timeout,
\* which the helper's except branch catches
ExtTimeout ==
    /\ ext.pc = "waiting"
    /\ ext.mode[ExtCurrent.service] = "silent"
    /\ ExtCurrent.timed
    /\ ExtGiveUp
    /\ UNCHANGED <<gen, refl, rank, evo, sess, meta, parse>>

\* process returns the context
ExtReturn ==
    /\ ext.pc = "running"
    /\ ext.sent = Len(StageCalls(ext.stage, ext.lib))
    /\ ext' = [ext EXCEPT !.pc = "returned"]
    /\ UNCHANGED <<gen, refl, rank, evo, sess, meta, parse>>

NextExt == ExtSend \/ ExtAnswer \/ ExtFail \/ ExtTimeout \/ ExtReturn

\* The stage's own steps are taken, a service that answers or fails does so
\* in the end, and a timeout that was set expires; nothing makes a silent
\* service answer.
SpecExt ==
    /\ InitExt /\ [][NextExt]_vars
    /\ WF_vars(ExtSend) /\ WF_vars(ExtAnswer) /\ WF_vars(ExtFail)
    /\ WF_vars(ExtTimeout) /\ WF_vars(ExtReturn)

\* C1: whatever the query, the evidence and the oracle's reply, the list that
\* Generation returns (from process and from generate) for a non-empty query
\* holds at least 3 and at most 5 hypotheses.
C1_GenerationReturnsThreeToFive ==
    (gen.call.outcome = "returned" /\ gen.in.query # <<>>) => Len(gen.call.hyps) \in 3..5

\* C2: GenerationAgent.process lets no exception escape: for every context
\* dict it returns a result.
C2_ProcessNeverRaises ==
    gen.call.api = "process" => gen.call.outcome = "returned"

\* C3: given the required keys, context['reflection_results'] holds exactly
\* one result per input hypothesis, in input order, the i-th carrying the
\* i-th hypothesis's id, whatever the oracle replied and also when the
\* rule-based fallback failed.
C3_OneReflectionPerHypothesis ==
    (refl.call.done /\ ReflRequiredKeys \subseteq refl.in.keys) =>
        /\ Len(refl.call.results) = Len(refl.in.hypotheses)
        /\ \A i \in 1..Len(refl.in.hypotheses) :
              refl.call.results[i].hypothesis_id = refl.in.hypotheses[i].id

\* two hypotheses, one answered with JSON and one with an empty reply, and
\* a call in which the rule-based fallback failed too
C3_Witness ==
    /\ refl.call.done
    /\ ReflRequiredKeys \subseteq refl.in.keys
    /\ Len(refl.in.hypotheses) = 2
    /\ \/ /\ refl.in.replies[1].kind = "json"
          /\ refl.in.replies[2].kind = "none"
          /\ "statement" \in refl.in.hypotheses[2].keys
       \/ EvidenceRaises(refl.in.web_data)
    /\ refl.call.path = "except"

\* C4: per-item isolation: a failure while processing one hypothesis leaves
\* the results of the other hypotheses of the call as they are without it:
\* every hypothesis whose own processing gave a complete reflection has that
\* reflection in the results.
C4_PerItemIsolation ==
    (refl.call.done /\ ReflRequiredKeys \subseteq refl.in.keys) =>
        \A i \in 1..Len(refl.in.hypotheses) :
            LET own == ReflectOne(refl.in.hypotheses[i], refl.in.web_data, refl.in.replies[i])
            IN  (~own.raised /\ ReflectionFields \subseteq own.result.keys) =>
                    /\ i <= Len(refl.call.results)
                    /\ refl.call.results[i] = own.result

\* C6: every score is within its documented range when it is stored: each
\* ReflectionResult's coherence_score is in [0,1].
C6_ScoresInRange ==
    \A i \in 1..Len(refl.call.results) :
        "coherence_score" \in refl.call.results[i].keys =>
            refl.call.results[i].coherence_score \in 0..100

C7_FallbackOnAnyException ==
    (rank.call.done /\ rank.call.path # "ok" /\ "hypotheses" \in rank.in.keys) =>
        /\ "ranked_hypotheses" \in rank.call.keys
        /\ Len(rank.call.ranked_hypotheses) = Len(rank.in.hypotheses)
        /\ \A i \in 1..Len(rank.in.hypotheses) :
              LET r == rank.call.ranked_hypotheses[i]
              IN  /\ r.id = rank.in.hypotheses[i].id
                  /\ r.overall_score = 50
                  /\ \A c \in Criteria : r.scores[c] = 50
                  /\ r.rank = i
                  /\ r.rank_explanation = <<"Fallback ranking due to processing error">>

\* C8: Evolution's selection on a non-empty ranked list holds the rank-1
\* hypothesis first and at most 3 ids; the others are exactly the first
\* hypotheses in rank order whose evidence score is > 0.6 and whose
\* overall_score is < 8.0, taken until 3 are selected.
C8_SelectionRule ==
    (evo.call.done /\ evo.call.selected /\ evo.in.ranked_hypotheses # <<>>) =>
        LET r == evo.in.ranked_hypotheses
            sel == evo.call.to_evolve
            qualifying == {i \in 2..Len(r) :
                              r[i].scores.evidence > 60 /\ r[i].overall_score < 80}
            taken == {i \in qualifying : Cardinality({j \in qualifying : j < i}) < 2}
        IN  /\ Len(sel) = 1 + Cardinality(taken)
            /\ Len(sel) <= 3
            /\ sel[1] = r[1].id
            /\ \A i \in taken : sel[2 + Cardinality({j \in taken : j < i})] = r[i].id

\* five hypotheses: the second fails the test (evidence exactly 0.6), the
\* third and fourth pass and are taken, the fifth passes too and is left out
C8_Witness ==
    /\ evo.call.done
    /\ evo.call.selected
    /\ Len(evo.in.ranked_hypotheses) = 5
    /\ evo.in.ranked_hypotheses[2].scores.evidence = 60
    /\ evo.in.ranked_hypotheses[5].scores.evidence > 60
    /\ evo.in.ranked_hypotheses[5].overall_score < 80
    /\ evo.call.to_evolve = <<evo.in.ranked_hypotheses[1].id, evo.in.ranked_hypotheses[3].id,
                              evo.in.ranked_hypotheses[4].id>>

\* C9: every evolved record that Evolution produces in cycle c from a
\* hypothesis h of the ranked input has id "<h.id>-evolved-<c>", parent_id
\* h.id (an id of the input), confidence min(1.0, h.confidence + 0.1), the
\* sources of h and evolution_cycle c; no evolved confidence exceeds 1.0.
C9_EvolvedRecordFields ==
    (evo.call.done /\ evo.call.path = "ok") =>
        \A i \in 1..Len(evo.call.evolved_hypotheses) :
            LET e == evo.call.evolved_hypotheses[i]
                h == evo.in.ranked_hypotheses[i]
            IN  "parent_id" \in e.keys =>
                    /\ e.id = <<h.id, "evolved", evo.in.cycle>>
                    /\ e.parent_id = h.id
                    /\ \E j \in 1..Len(evo.in.ranked_hypotheses) :
                          evo.in.ranked_hypotheses[j].id = e.parent_id
                    /\ "confidence" \in h.keys => e.confidence = Min(100, h.confidence + 10)
                    /\ e.confidence <= 100
                    /\ e.sources = h.sources
                    /\ e.evolution_cycle = evo.in.cycle

\* in cycle 2, a record evolved from a hypothesis of confidence 0.95 and one
\* evolved from a hypothesis of confidence 0.7
C9_Witness ==
    /\ evo.call.done
    /\ evo.call.path = "ok"
    /\ evo.in.cycle = 2
    /\ \E i, j \in 1..Len(evo.call.evolved_hypotheses) :
          /\ "parent_id" \in evo.call.evolved_hypotheses[i].keys
          /\ evo.in.ranked_hypotheses[i].confidence = 95
          /\ "parent_id" \in evo.call.evolved_hypotheses[j].keys
          /\ evo.in.ranked_hypotheses[j].confidence = 70

\* C10 as stated: the list evolve returns has the length and order of the
\* ranked input; position i holds the input record itself for every
\* non-selected hypothesis and a new record whose parent_id is the id of
\* input i for every selected hypothesis.
C10_EverySelectedEvolved ==
    (evo.call.done /\ evo.call.path = "ok") =>
        /\ Len(evo.call.evolved_hypotheses) = Len(evo.in.ranked_hypotheses)
        /\ \A i \in 1..Len(evo.in.ranked_hypotheses) :
              LET h == evo.in.ranked_hypotheses[i]
                  e == evo.call.evolved_hypotheses[i]
              IN  IF h.id \in Range(evo.call.to_evolve)
                  THEN "parent_id" \in e.keys /\ e.parent_id = h.id
                  ELSE e = h

\* C10 amended: the list evolve returns has the length and order of the
\* ranked input; position i holds a new record whose parent_id is the id of
\* input i for every selected hypothesis that has a reflection, and the
\* input record itself, unchanged, for every other hypothesis: the
\* non-selected ones and the selected ones without a reflection.
C10_SelectedWithReflectionEvolved ==
    (evo.call.done /\ evo.call.path = "ok") =>
        /\ Len(evo.call.evolved_hypotheses) = Len(evo.in.ranked_hypotheses)
        /\ \A i \in 1..Len(evo.in.ranked_hypotheses) :
              LET h == evo.in.ranked_hypotheses[i]
                  e == evo.call.evolved_hypotheses[i]
              IN  IF /\ h.id \in Range(evo.call.to_evolve)
                     /\ \E k \in 1..Len(evo.in.reflection_results) :
                           evo.in.reflection_results[k].hypothesis_id = h.id
                  THEN "parent_id" \in e.keys /\ e.parent_id = h.id
                  ELSE e = h

\* two selected hypotheses: the first has no reflection and passes through,
\* the second has one and is evolved
C10_Witness ==
    /\ evo.call.done
    /\ evo.call.path = "ok"
    /\ Len(evo.in.ranked_hypotheses) = 2
    /\ evo.call.to_evolve = <<evo.in.ranked_hypotheses[1].id, evo.in.ranked_hypotheses[2].id>>
    /\ evo.call.evolved_hypotheses[1] = evo.in.ranked_hypotheses[1]
    /\ "parent_id" \in evo.call.evolved_hypotheses[2].keys

\* C12: with two sessions running their stage calls in any interleaving,
\* also with the same query, no stage call reads into its computation an
\* item created by the other session, and no item is overwritten by a
\* session that did not create it.
C12_NoCrossSessionUse ==
    /\ \A i \in 1..Len(sess.store) : sess.store[i].writer = sess.store[i].creator
    /\ \A id \in sess.last.used :
          \A i \in 1..Len(sess.store) :
             sess.store[i].id = id => sess.store[i].creator = sess.last.session

\* C13: every record in the context store carries the session_id of the
\* session whose stage call wrote it, and the hypothesis ids generated in two
\* different sessions differ.
C13_RecordsNamespacedBySession ==
    /\ \A i \in 1..Len(sess.store) : sess.store[i].session_id = sess.store[i].writer
    /\ \A s, t \in Sessions :
          (s # t /\ sess.hyp[s] # <<>> /\ sess.hyp[t] # <<>>) => sess.hyp[s] # sess.hyp[t]

\* C14: a failing store call is not fatal and changes nothing in what the
\* stage returns: when GenerationAgent.process is called while the store
\* fails, it returns, and the hypotheses it returns are hypotheses it can
\* return on the same input when the store works.
C14_StoreFailureChangesNothing ==
    (gen.call.api = "process" /\ gen.in.store = "error"
        /\ ValidateContext(gen.in.keys, GenRequiredKeys)) =>
       /\ gen.call.outcome = "returned"
       /\ \E res \in ProcessResults([gen.in EXCEPT !.store = "ok"]) :
             res.hyps = gen.call.hyps

\* C15: in every stage call of Evolution, Ranking and Meta-Review, a PUT
\* that the store answers with 404 is followed by a POST of the same stage
\* call that carries the session_id of the calling session.
C15_PutNotFoundThenPost ==
    \A k \in 1..Len(sess.last.requests) :
        (sess.last.requests[k].method = "PUT" /\ sess.last.requests[k].status = 404) =>
            /\ k < Len(sess.last.requests)
            /\ sess.last.requests[k + 1].method = "POST"
            /\ sess.last.requests[k + 1].session_id = sess.last.session

\* C16: after EvolutionAgent.process returns, also when a required key is
\* absent or an error occurred inside, the context holds the stage's output
\* key evolved_hypotheses, and every record of it holds its id and statement.
C16_OutputKeyAlwaysPresent ==
    evo.call.done =>
        /\ "evolved_hypotheses" \in evo.call.keys
        /\ \A i \in 1..Len(evo.call.evolved_hypotheses) :
              {"id", "statement"} \subseteq evo.call.evolved_hypotheses[i].keys

\* C17: in each of the three reply parsers, a well-formed reply of the
\* expected shape is parsed to the structure it stands for, also when its
\* string holds escaped quotes or backslash escapes and also between json
\* fences, and a garbled reply ends in a fallback of the parser or its caller.
C17_RecoveryRoundTrip ==
    parse.call.done =>
        IF parse.in.kind = "garbled"
        THEN parse.call.path \in {"fallback", "text", "caller", "default", "manual", "regex"}
        ELSE /\ parse.call.path = "parsed"
             /\ parse.call.t = DocValue(parse.in.parser, parse.in.value).t
             /\ parse.call.v = DocValue(parse.in.parser, parse.in.value).v

\* C11: after EvolutionAgent.process has persisted its output, the record of
\* every parent hypothesis, in the ranked list of the context and in the
\* context store, still holds its original statement and confidence, and
\* every evolved version is a record of its own linked by parent_id.
C11_ParentsNeverMutated ==
    evo.call.done /\ evo.call.path = "ok" =>
        /\ \A id \in DOMAIN ParentItems(evo.in) :
              /\ id \in DOMAIN EvoStoreAfter
              /\ EvoStoreAfter[id].data.statement = ParentItems(evo.in)[id].data.statement
              /\ EvoStoreAfter[id].data.confidence = ParentItems(evo.in)[id].data.confidence
        /\ \A i \in 1..Len(evo.call.evolved_hypotheses) :
              LET e == evo.call.evolved_hypotheses[i]
              IN  "parent_id" \in e.keys =>
                     /\ \E h \in Range(evo.in.ranked_hypotheses) :
                           h.id = e.parent_id /\ h.id # e.id
                     /\ \E k \in DOMAIN EvoStoreAfter \ DOMAIN ParentItems(evo.in) :
                           EvoStoreAfter[k].data.parent_id = e.parent_id

\* C18: process returns a result for every task_data, and a group that fails
\* gets its default block while the blocks of the other groups are what they
\* are when that group is given another input, failing or not: the groups
\* are cycle performance (agent_outputs, replaced by those of at most one
\* agent), web-data quality, hypothesis improvement (the hypothesis), oracle
\* insights (the reply), the store write (the PUT's status) and the storage
\* save.
C18_GroupsFaultIsolated ==
    meta.call.outcome # "none" =>
        LET task == meta.in
            result == meta.call
            data == task.cycle_data
            previous_cycles == IF task.previous_cycles.raises THEN <<>>
                               ELSE task.previous_cycles.list
            same(other, blocks) ==
                /\ other.outcome = "returned"
                /\ "performance" \in blocks =>
                       other.performance_metrics = result.performance_metrics
                /\ "web" \in blocks => other.web_data_quality = result.web_data_quality
                /\ "improvement" \in blocks =>
                       other.hypothesis_improvement = result.hypothesis_improvement
                /\ "insights" \in blocks => other.insights = result.insights
        IN  /\ result.outcome = "returned"
            /\ AnalyzeCyclePerformance(data).raised =>
                   result.performance_metrics = PerformanceDefault
            /\ EvaluateWebDataQuality(data).raised =>
                   result.web_data_quality = WebDataQualityDefault
            /\ MeasureHypothesisImprovement(data, previous_cycles).raised =>
                   result.hypothesis_improvement = HypothesisImprovementDefault
            /\ data.isdict =>
                   /\ \A x \in {y \in AgentOutputs : Len(y) <= 1} :
                          same(MetaReviewProcess([task EXCEPT !.cycle_data.agent_outputs = x]),
                               {"web", "improvement", "insights"})
                   /\ \A x \in SourceLists :
                          same(MetaReviewProcess([task EXCEPT !.cycle_data.sources = x]),
                               {"performance", "improvement", "insights"})
                   /\ \A x \in CycleHypotheses :
                          same(MetaReviewProcess([task EXCEPT !.cycle_data.hypothesis = x]),
                               {"performance", "web", "insights"})
            /\ \A x \in OracleReplies :
                   same(MetaReviewProcess([task EXCEPT !.reply = x]),
                        {"performance", "web", "improvement"})
            /\ \A x \in {200, 404} :
                   same(MetaReviewProcess([task EXCEPT !.put_status = x]),
                        {"performance", "web", "improvement", "insights"})
            /\ \A x \in {"ok", "raises"} :
                   same(MetaReviewProcess([task EXCEPT !.save = x]),
                        {"performance", "web", "improvement", "insights"})

\* C18 witness: the hypothesis group alone has failed, on a score too large
\* for a float, next to a cycle performance with a bottleneck and two sources
C18_OneGroupFailed ==
    /\ meta.call.outcome = "returned"
    /\ meta.in.cycle_data.isdict
    /\ meta.in.cycle_data.hypothesis.score.kind = "huge"
    /\ meta.call.hypothesis_improvement = HypothesisImprovementDefault
    /\ meta.call.performance_metrics.bottlenecks # <<>>
    /\ meta.call.performance_metrics.total_cycle_time = 37
    /\ meta.call.web_data_quality.sources_count = 2
    /\ meta.in.save = "raises"
    /\ meta.in.put_status = 404

\* C19: the oracle is called in every Meta-Review; a reply holding a
\* well-formed JSON object with insights, recommendations and bottlenecks is
\* what the result carries, and the fixed set naming the failure is returned
\* only when the oracle call fails or its reply cannot be recovered.
C19_OracleInsightsCarried ==
    meta.call.outcome # "none" =>
        LET reply == meta.in.reply
            parsed == ParseLlmResponse(reply.text)
        IN  /\ meta.call.oracle_called
            /\ reply.kind = "plain" =>
                   /\ parsed.path = "parsed"
                   /\ meta.call.insights = [t |-> parsed.t, v |-> parsed.v]
            /\ meta.call.insights = InsightsAfterFailure =>
                   reply.kind \in {"raises", "garbled"}

\* C20: in every result score_delta is current_score minus previous_score, a
\* missing or unparsable score and a missing previous cycle counting as 0,
\* and improvement_percentage is non-zero only when previous_score > 0.
C20_ScoreDeltaIsDifference ==
    meta.call.outcome # "none" =>
        LET block == meta.call.hypothesis_improvement
        IN  /\ block.score_delta = block.current_score - block.previous_score
            /\ block.improvement_percentage # 0 => block.previous_score > 0

C22_ConfidenceAndStatementValid ==
    (gen.call.outcome = "returned" /\ gen.call.path \in {"oracle", "regex", "fallback"}) =>
        \A i \in 1..Len(gen.call.hyps) :
            /\ gen.call.hyps[i].confidence \in 0..100
            /\ gen.call.hyps[i].statement # <<>>

\* C23: with an empty evidence list and an empty oracle reply, Generation
\* returns the fixed default set: exactly 3 hypotheses whose statements and
\* confidences are those of the default set on every run, never an empty list.
C23_EmptyInputsGiveDefaultSet ==
    (/\ gen.call.api = "process" /\ gen.call.outcome = "returned"
     /\ BuildWebData(gen.in.results) = <<>>
     /\ gen.in.reply.kind = "none") =>
        /\ Len(gen.call.hyps) = 3
        /\ \A i \in 1..3 :
              /\ gen.call.hyps[i].statement = DefaultHypotheses(gen.in.now)[i].statement
              /\ gen.call.hyps[i].confidence = DefaultHypotheses(gen.in.now)[i].confidence

\* C24: in the test cycle of conevo_main.py (query "future of computing",
\* cycle 1, hyp_001 coherent without supporting evidence, hyp_002 not
\* coherent with contradictions) Evolution selects both hypotheses, the
\* evolved statement of hyp_001 differs from its original and begins with an
\* evidentiary phrase, and the evolved statement of hyp_002 differs from its
\* original, whatever the evidence search returns.
C24_TestCycleEvolvesBoth ==
    (evo.call.done /\ evo.in.query = <<"future", "of", "computing">>) =>
        /\ evo.call.to_evolve = << <<"hyp", 1>>, <<"hyp", 2>> >>
        /\ Len(evo.call.evolved_hypotheses) = 2
        /\ evo.call.evolved_hypotheses[1].statement # evo.in.ranked_hypotheses[1].statement
        /\ evo.call.evolved_hypotheses[1].statement[1] \in
               {"Research indicates that", "Evidence suggests that",
                "Studies have shown that", "According to research,"}
        /\ evo.call.evolved_hypotheses[2].statement # evo.in.ranked_hypotheses[2].statement

\* C25: in a call of Generation's process, an oracle entry without a
\* non-empty statement or without a numeric confidence is discarded: the
\* hypotheses of the oracle path are those of the valid entries, in order; a
\* reply that is empty, is JSON but no array, or has no valid entry gives
\* the heuristic fallback hypotheses; the call never raises and never
\* returns an empty list because of an invalid entry.
C25_InvalidEntriesDiscarded ==
    (/\ gen.call.api = "process"
     /\ "query" \in gen.in.keys
     /\ gen.in.reply.kind \in {"none", "object", "list"}) =>
        LET valid == SelectSeq(gen.in.reply.items, LAMBDA h :
                        /\ h.isDict
                        /\ {"statement", "confidence"} \subseteq h.keys
                        /\ h.statement # <<>>
                        /\ h.numeric)
        IN  /\ gen.call.outcome = "returned"
            /\ gen.call.hyps # <<>>
            /\ IF gen.in.reply.kind # "list" \/ valid = <<>>
               THEN gen.call.path = "fallback"
               ELSE /\ gen.call.path = "oracle"
                    /\ Len(gen.call.hyps) = Len(valid)
                    /\ \A i \in 1..Len(valid) :
                          gen.call.hyps[i].statement = valid[i].statement

\* C26: when the oracle's reply for a hypothesis is empty or is no JSON at
\* all, the reflection result returned for that hypothesis is the rule-based
\* reflection: its is_coherent, its supporting_facts (at most 5) and its
\* contradictions (at most 3) are those the rules compute from the statement
\* and the evidence.
C26_RuleBasedOnUnusableReply ==
    (refl.call.done /\ ReflRequiredKeys \subseteq refl.in.keys) =>
        \A i \in 1..Len(refl.in.hypotheses) :
            (/\ refl.in.replies[i].kind \in {"none", "text"}
             /\ "statement" \in refl.in.hypotheses[i].keys
             /\ ~EvidenceRaises(refl.in.web_data)) =>
                LET rules == ReflectOnHypothesis(refl.in.hypotheses[i], refl.in.web_data)
                    got == refl.call.results[i]
                IN  /\ i <= Len(refl.call.results)
                    /\ got.hypothesis_id = refl.in.hypotheses[i].id
                    /\ got.is_coherent = rules.is_coherent
                    /\ got.supporting_facts = rules.supporting_facts
                    /\ got.contradictions = rules.contradictions
                    /\ Len(got.supporting_facts) <= 5
                    /\ Len(got.contradictions) <= 3

\* C27: every stage call eventually returns, whatever the store, the oracle
\* and the evidence search do: each request is bounded by a timeout and by
\* at most 3 attempts, so a service that never answers or that always fails
\* cannot block the stage forever.  Stated for the calls in which the client
\* libraries of the oracle and of the search bound their own waits, so that
\* only the requests the code itself sends are in question.
C27_StageCallReturns == ext.lib => <>(ext.pc = "returned")

\* C28: for every context that holds the four required keys, rank and
\* process give the same ranked list: the same hypothesis ids with the same
\* scores in the same order with the same ranks, a hypothesis without a
\* reflection entry included (it is ranked on the neutral default reflection
\* by both).
C28_RankEqualsProcess ==
    (/\ rank.call.done /\ rank.listed.done
     /\ RankRequiredKeys \subseteq rank.in.keys
     /\ rank.call.path = "ok") =>
        /\ ~rank.listed.raised
        /\ rank.listed.ranked_hypotheses = rank.call.ranked_hypotheses

\* C29: in a context that is threaded through successive cycles, the
\* ranked_hypotheses found in the context after RankingAgent.process returns
\* hold exactly the ids of the hypotheses given to that call; a call that
\* fails does not leave an earlier cycle's ranked_hypotheses there as its
\* output.
C29_RankedAreThoseGiven ==
    (rank.call.done /\ "hypotheses" \in rank.in.keys) =>
        /\ "ranked_hypotheses" \in rank.call.keys
        /\ {rank.call.ranked_hypotheses[i].id : i \in 1..Len(rank.call.ranked_hypotheses)}
               = {rank.in.hypotheses[i].id : i \in 1..Len(rank.in.hypotheses)}

\* C30: after ReflectionAgent.process returns, the store and the returned
\* context agree: the reflections written to the store, one per hypothesis
\* in the order of processing, are the entries of reflection_results, and
\* every returned entry has been written.  Stated for the contexts that
\* hold the required keys.
C30_StoreAgreesWithContext ==
    (refl.call.done /\ ReflRequiredKeys \subseteq refl.in.keys) =>
        /\ Len(refl.call.stored) = Len(refl.call.results)
        /\ \A i \in 1..Len(refl.call.results) : refl.call.stored[i] = refl.call.results[i]

====
